---- MODULE Spec2Model ----
(***************************************************************************)
(* A model of pyclibrary's CParser (src/pyclibrary/c_parser.py): the       *)
(* constructor, process_all with its cache, the line loop of preprocess,   *)
(* parse_defs and the construct handlers, over a small file system.        *)
(*                                                                         *)
(* Text is modelled as a sequence of tokens (strings); white space between *)
(* the tokens of the source text is not represented, a space the program   *)
(* puts into a text is the token " ".                                      *)
(* A source line is a record: a code line                                  *)
(* [k |-> "code", toks], a directive [k |-> "dir", d, rest] matched by the *)
(* regular expression of line 446, or a code line that holds one C         *)
(* construct, given by the parse tree the grammar of build_parser yields.  *)
(***************************************************************************)
EXTENDS Integers, Sequences, FiniteSets, TLC

VARIABLES
    family,        \* the family of inputs this behaviour draws from (never changes)
    python,        \* the major version of the interpreter, 2 or 3 (never changes)
    pc,            \* where the caller is: "new", "idle", "loop", "pp", "parse", "done", "raised"
    exc,           \* the exception that reached the caller, "none" if none did
    gen,           \* how many parsers have been constructed so far
    disk,          \* the file system: source files and the cache file
    init_opts,     \* self.init_opts
    file_order,    \* self.file_order
    files,         \* self.files: path -> text (lines) or NoText
    defs,          \* self.defs: category -> name -> value
    file_defs,     \* self.file_defs: base name -> category -> name -> value
    current_file,  \* self.current_file
    pack_list,     \* self.pack_list: path -> <<line, packing>> entries
    call,          \* arguments and locals of the running process_all
    pp,            \* locals of the running preprocess
    ecall,         \* argument and locals of the last eval_type call
    hist           \* observations kept for the properties (not program state)

vars == <<family, python, pc, exc, gen, disk, init_opts, file_order, files, defs,
          file_defs, current_file, pack_list, call, pp, ecall, hist>>

(***************************************************************************)
(* Python values.  None in a slot that otherwise holds a number is -1 (the *)
(* numbers of these slots are never negative: isdigit() strings); None in  *)
(* a slot that otherwise holds a string is the string "None".              *)
(***************************************************************************)
None == -1
NoneS == "None"
NoText == <<[k |-> "None"]>>

Last(s) == s[Len(s)]
Front(s) == SubSeq(s, 1, Len(s) - 1)
Put(f, n, v) == [y \in DOMAIN f \cup {n} |-> IF y = n THEN v ELSE f[y]]
Del(f, n) == [y \in DOMAIN f \ {n} |-> f[y]]
All(bs) == \A j \in 1..Len(bs) : bs[j]

RECURSIVE Concat(_)
Concat(ss) == IF ss = <<>> THEN <<>> ELSE Head(ss) \o Concat(Tail(ss))

Digits == {"0", "1", "2", "3", "4", "5", "6", "7", "8", "9", "10"}
ToInt(o) ==
    CASE o = "0" -> 0 [] o = "1" -> 1 [] o = "2" -> 2 [] o = "3" -> 3
      [] o = "4" -> 4 [] o = "5" -> 5 [] o = "6" -> 6 [] o = "7" -> 7
      [] o = "8" -> 8 [] o = "9" -> 9 [] o = "10" -> 10

(***************************************************************************)
(* The definition registry.                                                *)
(***************************************************************************)
data_list == <<"types", "variables", "fnmacros", "macros", "structs",
               "unions", "enums", "functions", "values">>
Categories == {data_list[j] : j \in 1..Len(data_list)}
EmptyDefs == [k \in Categories |-> <<>>]

\* A path is [dir, base]; NonePath stands for self.current_file = None,
\* whose partition of file_defs has the key None.
NonePath == [dir |-> "", base |-> NoneS]
basename(path) == path.base

\* An add_def that stores the value in the global registry only.
add_def_unpartitioned(r, cf, typ, name, val) ==
    [defs |-> [r.defs EXCEPT ![typ] = Put(@, name, val)],
     file_defs |-> r.file_defs]

\* A registry pair r = [defs, file_defs]; cf is self.current_file.
add_def(r, cf, typ, name, val) ==
    LET base_name == basename(cf)
        fd == IF base_name \in DOMAIN r.file_defs
              THEN r.file_defs
              ELSE Put(r.file_defs, base_name, EmptyDefs)
    IN [defs |-> [r.defs EXCEPT ![typ] = Put(@, name, val)],
        file_defs |-> [fd EXCEPT ![base_name][typ] = Put(@, name, val)]]

\* rem_def raises KeyError after the first del that finds no entry; the
\* result is the registry pair left behind and whether it raised.
rem_def(r, cf, typ, name) ==
    LET base_name == basename(cf) IN
    IF name \notin DOMAIN r.defs[typ]
    THEN [r |-> r, raised |-> TRUE]
    ELSE LET d1 == [r.defs EXCEPT ![typ] = Del(@, name)] IN
         IF base_name \in DOMAIN r.file_defs
            /\ name \in DOMAIN r.file_defs[base_name][typ]
         THEN [r |-> [defs |-> d1,
                      file_defs |-> [r.file_defs EXCEPT
                                        ![base_name][typ] = Del(@, name)]],
               raised |-> FALSE]
         ELSE [r |-> [defs |-> d1, file_defs |-> r.file_defs],
               raised |-> TRUE]

\* The loop of lines 163-165 over the keyword arguments args of the
\* constructor (category -> name -> value), todo being the <<category,
\* name>> pairs still to add; self.current_file is None.
RECURSIVE seed_defs(_, _, _)
seed_defs(r, args, todo) ==
    IF todo = {} THEN r
    ELSE LET x == CHOOSE y \in todo : TRUE IN
         seed_defs(add_def(r, NonePath, x[1], x[2], args[x[1]][x[2]]),
                   args, todo \ {x})

(***************************************************************************)
(* Macro expansion and the evaluation of expressions.                      *)
(***************************************************************************)
\* A first pass that substitutes nothing.
expand_object_macros_none(macros, line) == line

\* First pass of expand_macros: every word that names an object macro is
\* replaced by the macro's text, once, left to right.  A quoted string is
\* one token and matches no name.
expand_object_macros(macros, line) ==
    Concat([j \in 1..Len(line) |->
               IF line[j] \in DOMAIN macros THEN macros[line[j]]
               ELSE <<line[j]>>])

\* The tokens joined by single spaces: recombine (lines 1367-1373), the
\* parse action of expression.  White space of the source text is not
\* represented; the space recombine puts between two tokens is the token " ".
\* A recombine that joins the tokens with nothing between them.
recombine_joined(toks) == toks

RECURSIVE recombine(_)
recombine(toks) ==
    IF Len(toks) <= 1 THEN toks
    ELSE <<Head(toks), " ">> \o recombine(Tail(toks))

\* arg_list (lines 708-710) on a text that starts with "(", from token j on:
\* the arguments are the expressions between the commas of the outermost
\* parentheses.  depth counts the open parentheses, cur is the argument
\* being read and args the ones read.  The result is [ok, args, end], end
\* the number of tokens matched.  Any non-empty balanced token sequence
\* stands for an expression.
RECURSIVE scan_args(_, _, _, _, _)
scan_args(text, j, depth, cur, args) ==
    IF j > Len(text) THEN [ok |-> FALSE, args |-> <<>>, end |-> 0]
    ELSE IF text[j] = ")" /\ depth = 1
    THEN IF cur = <<>> THEN [ok |-> FALSE, args |-> <<>>, end |-> 0]
         ELSE [ok |-> TRUE, args |-> Append(args, recombine(cur)), end |-> j]
    ELSE IF text[j] = "," /\ depth = 1
    THEN IF cur = <<>> THEN [ok |-> FALSE, args |-> <<>>, end |-> 0]
         ELSE scan_args(text, j + 1, depth, <<>>, Append(args, recombine(cur)))
    ELSE scan_args(text, j + 1,
                   IF text[j] = "(" THEN depth + 1
                   ELSE IF text[j] = ")" THEN depth - 1 ELSE depth,
                   Append(cur, text[j]), args)

\* expand_fn_macro(name, text) with defn = self.defs['fnmacros'][name]:
\* err is "none", "NoArgs" for the Exception(0, ...) of line 713 or
\* "IndexError" when the call has fewer arguments than arg_order asks for.
expand_fn_macro(defn, text) ==
    LET res == IF text # <<>> /\ text[1] = "("
               THEN scan_args(text, 2, 1, <<>>, <<>>)
               ELSE [ok |-> FALSE, args |-> <<>>, end |-> 0]
        places == {j \in 1..Len(defn.tmpl) : defn.tmpl[j] = "{}"}
        nth(j) == Cardinality({q \in places : q <= j})
    IN IF ~res.ok THEN [err |-> "NoArgs", new_str |-> <<>>, end |-> 0]
       ELSE IF \E j \in 1..Len(defn.order) : defn.order[j] + 1 > Len(res.args)
       THEN [err |-> "IndexError", new_str |-> <<>>, end |-> 0]
       ELSE [err |-> "none",
             new_str |-> Concat([j \in 1..Len(defn.tmpl) |->
                                   IF defn.tmpl[j] = "{}"
                                   THEN res.args[defn.order[nth(j)] + 1]
                                   ELSE <<defn.tmpl[j]>>]),
             end |-> res.end]

\* The second pass of expand_macros (lines 682-700) from token j on: start
\* is the first token not yet copied and parts the text put together.  The
\* handler of lines 693-697 subscripts the exception: under Python 2 this
\* is its first argument, so that the Exception(0, ...) of expand_fn_macro
\* is ignored and any other one is raised again; under Python 3 (py = 3)
\* an exception has no subscript and the handler raises TypeError.
RECURSIVE expand_fn_macros_from(_, _, _, _, _, _)
expand_fn_macros_from(py, fnmacros, line, j, start, parts) ==
    IF j > Len(line)
    THEN [err |-> "none", line |-> parts \o SubSeq(line, start, Len(line))]
    ELSE IF line[j] \notin DOMAIN fnmacros
    THEN expand_fn_macros_from(py, fnmacros, line, j + 1, start, parts)
    ELSE LET e == expand_fn_macro(fnmacros[line[j]], SubSeq(line, j + 1, Len(line)))
         IN IF e.err # "none" /\ py = 3 THEN [err |-> "TypeError", line |-> line]
            ELSE IF e.err = "NoArgs"
            THEN expand_fn_macros_from(py, fnmacros, line, j + 1, start, parts)
            ELSE IF e.err # "none" THEN [err |-> e.err, line |-> line]
            ELSE expand_fn_macros_from(py, fnmacros, line, j + 1, j + 1 + e.end,
                                       parts \o SubSeq(line, start, j - 1)
                                             \o e.new_str)

expand_fn_macros(py, fnmacros, line) ==
    expand_fn_macros_from(py, fnmacros, line, 1, 1, <<>>)

\* expand_macros under the interpreter py: the result is [err, line], err
\* the exception that leaves it.
expand_macros(py, d, line) ==
    expand_fn_macros(py, d.fnmacros, expand_object_macros(d.macros, line))

\* eval_expr on a text: Python's eval with self.defs['values'] as locals.
eval_expr(values, toks) ==
    IF Len(toks) # 1 THEN None
    ELSE IF toks[1] \in Digits THEN ToInt(toks[1])
    ELSE IF toks[1] \in DOMAIN values THEN values[toks[1]]
    ELSE None

\* The 'defined' operator of lines 473-481: "defined X" and "defined ( X )"
\* become "1" if X is an object or a function macro and "0" otherwise.
RECURSIVE resolve_defined(_, _)
resolve_defined(d, rest) ==
    LET is(n) == IF n \in DOMAIN d.macros \/ n \in DOMAIN d.fnmacros
                 THEN "1" ELSE "0"
    IN IF rest = <<>> THEN <<>>
       ELSE IF rest[1] = "defined" /\ Len(rest) >= 4 /\ rest[2] = "("
               /\ rest[4] = ")"
       THEN <<is(rest[3])>> \o resolve_defined(d, SubSeq(rest, 5, Len(rest)))
       ELSE IF rest[1] = "defined" /\ Len(rest) >= 2 /\ rest[2] # "("
       THEN <<is(rest[2])>> \o resolve_defined(d, SubSeq(rest, 3, Len(rest)))
       ELSE <<rest[1]>> \o resolve_defined(d, Tail(rest))

\* eval_preprocessor_expr: "!" becomes "not", every remaining word becomes
\* "0", and the text is given to Python's eval; an error yields False.
eval_preprocessor_expr(expr) ==
    LET word(t) == IF t \in Digits \/ t = "!" THEN t ELSE "0"
        e == [j \in 1..Len(expr) |-> word(expr[j])]
    IN IF Len(e) = 1 /\ e[1] \in Digits THEN ToInt(e[1]) # 0
       ELSE IF Len(e) = 2 /\ e[1] = "!" /\ e[2] \in Digits THEN ToInt(e[2]) = 0
       ELSE FALSE

\* compile_fn_macro: every occurrence of a formal parameter becomes the
\* placeholder "{}", and arg_order lists the parameters' indices (from 0).
IndexOf(seq, x) == (CHOOSE j \in 1..Len(seq) : seq[j] = x) - 1
compile_fn_macro(text, args) ==
    LET isarg(t) == \E j \in 1..Len(args) : args[j] = t IN
    [tmpl |-> [j \in 1..Len(text) |-> IF isarg(text[j]) THEN "{}" ELSE text[j]],
     order |-> LET occ == SelectSeq(text, isarg)
               IN [j \in 1..Len(occ) |-> IndexOf(args, occ[j])]]

(***************************************************************************)
(* Tokens and lines.                                                       *)
(***************************************************************************)
Punct == {"(", ")", ",", "{", "}", ";", "*", "&", "[", "]", "!", "=", "+", "{}",
          " "}
Quoted == {"\"M\""}
IsName(t) == t \notin Punct \cup Quoted \cup Digits

Code(toks) == [k |-> "code", toks |-> toks]
Dir(d, rest) == [k |-> "dir", d |-> d, rest |-> rest]
EmptyLine == Code(<<>>)

\* The line emitted for a code line, x being the result of expand_macros
\* on it.  A line that holds a construct is built from type names, tags and
\* declarator names only, none of which is a macro name of the input
\* families: the expansion leaves it as it is.
expand_line(line, x) ==
    IF line.k = "code" THEN Code(x.line) ELSE line

(***************************************************************************)
(* process_macro_defn, called through self.pp_define on                    *)
(* macroName + ' ' + rest: an optional parenthesised list of names, then   *)
(* the value up to the end of the line.                                    *)
(***************************************************************************)
\* The position of the ")" closing a parameter list at the head of rest,
\* 0 if rest does not start with one.
ParamListEnd(rest) ==
    LET ends == {j \in 3..Len(rest) :
                    /\ rest[1] = "("
                    /\ rest[j] = ")"
                    /\ j % 2 = 1
                    /\ \A q \in 2..(j - 1) :
                          IF q % 2 = 0 THEN IsName(rest[q]) ELSE rest[q] = ","}
    IN IF ends = {} THEN 0 ELSE CHOOSE j \in ends : \A q \in ends : j <= q

process_macro_defn(r, cf, macro, rest) ==
    LET e == ParamListEnd(rest)
        args == IF e = 0 THEN <<>>
                ELSE SelectSeq(SubSeq(rest, 2, e - 1), LAMBDA t : t # ",")
        macro_val == SubSeq(rest, e + 1, Len(rest))
    IN IF Len(macro_val) = 1 /\ macro_val[1] \in DOMAIN r.defs.fnmacros
       THEN add_def(r, cf, "fnmacros", macro, r.defs.fnmacros[macro_val[1]])
       ELSE IF e = 0
       THEN LET val == eval_expr(r.defs.values, macro_val) IN
            add_def(add_def(r, cf, "macros", macro, macro_val),
                    cf, "values", macro, val)
       ELSE add_def(r, cf, "fnmacros", macro, compile_fn_macro(macro_val, args))

(***************************************************************************)
(* #pragma pack (lines 547-587).  s holds the locals of preprocess.        *)
(***************************************************************************)
\* The options of "pack ( o1 , o2 ... )", <<>> if the text is no pack pragma
\* (the regular expression of line 550 does not match).
pack_opts(rest) ==
    LET close == {j \in 4..Len(rest) : rest[j] = ")"} IN
    IF Len(rest) >= 4 /\ rest[1] = "pack" /\ rest[2] = "(" /\ rest[3] # ")"
       /\ close # {}
    THEN LET j == CHOOSE c \in close : \A q \in close : c <= q
         IN SelectSeq(SubSeq(rest, 3, j - 1), LAMBDA t : t # ",")
    ELSE <<>>

\* The branch of the loop of lines 556-563 an option takes.
OptKind(o) ==
    IF o \in {"push", "pop"} THEN "pushpop"
    ELSE IF o \in Digits THEN "val"
    ELSE "id"

\* The last option of a kind, or none.
LastOpt(opts, kind, none) ==
    LET js == {j \in 1..Len(opts) : OptKind(opts[j]) = kind} IN
    IF js = {} THEN none
    ELSE opts[CHOOSE j \in js : \A q \in js : q <= j]

pragma_pack(s, i, opts) ==
    LET pushpop == LastOpt(opts, "pushpop", NoneS)
        valtok == LastOpt(opts, "val", NoneS)
        val == IF valtok = NoneS THEN None ELSE ToInt(valtok)
        id == LastOpt(opts, "id", NoneS)
        packing1 == IF val # None THEN val ELSE s.packing
        st == s.pack_stack
        append(li, p, stk) ==
            [s EXCEPT !.packing = p, !.pack_stack = stk,
                      !.pl = Append(@, <<li, p>>)]
    IN
    IF pushpop = "push"
    THEN append(i, packing1, Append(st, <<packing1, id>>))
    ELSE IF opts[1] = "pop"
    THEN IF id = NoneS
         THEN \* pack_stack.pop(), then packing = pack_stack[-1][0]
              IF st = <<>>
              THEN [s EXCEPT !.packing = packing1, !.err = "IndexError"]
              ELSE IF val # None
              THEN append(i, packing1, Front(st))
              ELSE IF Front(st) = <<>>
              THEN [s EXCEPT !.pack_stack = <<>>, !.err = "IndexError"]
              ELSE append(i, Last(Front(st))[1], Front(st))
         ELSE \* the search loop of lines 574-577 assigns the loop variable i,
              \* which is also the line index of the enclosing loop
              LET hits == {j \in 1..Len(st) : st[j][2] = id}
                  ind == IF hits = {} THEN None
                         ELSE (CHOOSE j \in hits : \A q \in hits : j <= q) - 1
                  i2 == IF st = <<>> THEN i
                        ELSE IF ind # None THEN ind ELSE Len(st) - 1
                  st2 == IF ind # None THEN SubSeq(st, 1, ind) ELSE st
              IN IF val # None THEN append(i2, packing1, st2)
                 ELSE IF st2 = <<>>
                 THEN [s EXCEPT !.pack_stack = st2, !.err = "IndexError"]
                 ELSE append(i2, Last(st2)[1], st2)
    ELSE \* packing = int(opts[0])
         IF opts[1] \in Digits
         THEN append(i, ToInt(opts[1]), st)
         ELSE [s EXCEPT !.packing = packing1, !.err = "ValueError"]

(***************************************************************************)
(* One iteration of the line loop of preprocess (lines 449-593).           *)
(* s = [r, if_true, if_hit, pack_stack, packing, pl, result, err, cont,    *)
(* py, expanded]: r is the registry pair, pl is self.pack_list[path], err  *)
(* the exception raised by the iteration, cont whether it ended in a       *)
(* 'continue', py the major version of the interpreter (it decides what    *)
(* the handler at line 694 does) and expanded whether the iteration called *)
(* expand_macros.                                                          *)
(***************************************************************************)
SetLast(seq, v) == [seq EXCEPT ![Len(seq)] = v]

directive_elif(s, rest) ==
    IF s.if_hit = <<>> THEN [s EXCEPT !.err = "IndexError"]
    ELSE LET ev == IF Last(s.if_hit) \/ ~All(Front(s.if_true)) THEN FALSE
                   ELSE eval_preprocessor_expr(rest)
         IN [s EXCEPT !.if_true = SetLast(s.if_true, ev),
                      !.if_hit = SetLast(s.if_hit, Last(s.if_hit) \/ ev)]

\* An #else that does not look at if_hit.
directive_else_always(s) ==
    IF s.if_hit = <<>> THEN [s EXCEPT !.err = "IndexError"]
    ELSE [s EXCEPT !.if_true = SetLast(s.if_true, All(Front(s.if_true))),
                   !.if_hit = SetLast(s.if_hit, TRUE)]

directive_else(s) ==
    IF s.if_hit = <<>> THEN [s EXCEPT !.err = "IndexError"]
    ELSE [s EXCEPT !.if_true = SetLast(s.if_true,
                                   ~Last(s.if_hit) /\ All(Front(s.if_true))),
                   !.if_hit = SetLast(s.if_hit, TRUE)]

directive_endif(s) ==
    IF s.if_true = <<>> THEN [s EXCEPT !.err = "IndexError"]
    ELSE IF s.if_hit = <<>>
    THEN [s EXCEPT !.if_true = Front(s.if_true), !.err = "IndexError"]
    ELSE [s EXCEPT !.if_true = Front(s.if_true), !.if_hit = Front(s.if_hit)]

\* An #if that opens no frame where the enclosing conditionals are false.
directive_if_skipping(s, rest) ==
    IF ~All(s.if_true) THEN s
    ELSE [s EXCEPT !.if_true = Append(s.if_true, eval_preprocessor_expr(rest)),
                   !.if_hit = Append(s.if_hit, eval_preprocessor_expr(rest))]

\* An #if that looks at its own condition only, not at the enclosing ones.
directive_if_unnested(s, rest) ==
    [s EXCEPT !.if_true = Append(s.if_true, eval_preprocessor_expr(rest)),
              !.if_hit = Append(s.if_hit, eval_preprocessor_expr(rest))]

directive_if(s, rest) ==
    LET ev == IF All(s.if_true) THEN eval_preprocessor_expr(rest) ELSE FALSE
    IN [s EXCEPT !.if_true = Append(s.if_true, ev),
                 !.if_hit = Append(s.if_hit, ev)]

directive_define(s, cf, macroName, rest) ==
    IF ~Last(s.if_true) THEN [s EXCEPT !.cont = TRUE]
    ELSE [s EXCEPT !.r = process_macro_defn(s.r, cf, macroName, rest)]

\* Every exception of rem_def is caught (a KeyError silently).
directive_undef(s, cf, macroName) ==
    IF ~Last(s.if_true) THEN [s EXCEPT !.cont = TRUE]
    ELSE [s EXCEPT !.r = rem_def(s.r, cf, "macros", macroName).r]

directive_pragma(s, i, rest) ==
    IF ~Last(s.if_true) THEN [s EXCEPT !.cont = TRUE]
    ELSE IF pack_opts(rest) = <<>> THEN [s EXCEPT !.cont = TRUE]
    ELSE pragma_pack(s, i, pack_opts(rest))

\* s.expanded tells whether the iteration has called expand_macros (lines
\* 458 and 489).
\* A regular code line (lines 454-458), x being the result of expand_macros
\* on it.
code_line(s, line, x) ==
    IF ~Last(s.if_true)
    THEN [s EXCEPT !.result = Append(@, EmptyLine), !.expanded = FALSE]
    ELSE IF x.err # "none" THEN [s EXCEPT !.err = x.err, !.expanded = TRUE]
    ELSE [s EXCEPT !.result = Append(@, expand_line(line, x)),
                   !.expanded = TRUE]

\* The branches of lines 491-587 for the directive d, x being the result of
\* expand_macros on the rest of the line if line 489 has called it; then
\* the end of the iteration (lines 589-592).
directive_line(s, cf, i, d, macroName, x) ==
    IF x.err # "none" THEN [s EXCEPT !.err = x.err]
    ELSE CASE d = "elif" -> directive_elif(s, x.line)
           [] d = "else" -> directive_else(s)
           [] d = "endif" -> directive_endif(s)
           [] d = "if" -> directive_if(s, x.line)
           [] d = "define" -> directive_define(s, cf, macroName, x.line)
           [] d = "undef" -> directive_undef(s, cf, macroName)
           [] d = "pragma" -> directive_pragma(s, i, x.line)
           [] OTHER -> s

end_of_iteration(t) ==
    IF t.err # "none" \/ t.cont THEN t
    ELSE [t EXCEPT !.result = Append(@, EmptyLine)]

preprocess_line(s, cf, i, line) ==
    IF line.k # "dir"
    THEN code_line(s, line,
                   IF line.k = "code" /\ Last(s.if_true)
                   THEN expand_macros(s.py, s.r.defs, line.toks)
                   ELSE [err |-> "none", line |-> <<>>])
    ELSE
    LET d == IF line.d \in {"ifdef", "ifndef"} THEN "if" ELSE line.d
        rest1 == IF line.d = "ifdef" THEN <<"defined">> \o line.rest
                 ELSE IF line.d = "ifndef" THEN <<"!", "defined">> \o line.rest
                 ELSE line.rest
        nomatch == d \in {"define", "undef"}
                   /\ (rest1 = <<>> \/ ~IsName(rest1[1]))
        rest2 == IF d \in {"if", "elif"} THEN resolve_defined(s.r.defs, rest1)
                 ELSE IF d \in {"define", "undef"} THEN Tail(rest1)
                 ELSE rest1
        expands == All(s.if_true) \/ d \in {"if", "elif"}
    IN IF nomatch THEN [s EXCEPT !.err = "AttributeError"]
       ELSE end_of_iteration(
                directive_line([s EXCEPT !.expanded = expands], cf, i, d,
                               rest1[1],
                               IF expands
                               THEN expand_macros(s.py, s.r.defs, rest2)
                               ELSE [err |-> "none", line |-> rest2]))

(***************************************************************************)
(* Declarators (lines 897-965).  A declarator is the parse result of       *)
(* self.declarator / self.abstract_declarator (lines 787-827):             *)
(*   [call_conv, ptrs, arrays, args, ref, center, name]                    *)
(* with call_conv, ptrs and arrays token sequences, args = [present, list] *)
(* (present with an empty list is "()"), center <<>> or <<declarator>>,    *)
(* and name NoneS when the declarator names nothing.                       *)
(* An element of a modifier list is Str(s) for a Python string, Lst(l) for *)
(* a list (array lengths) and Tup(a) for a tuple (function arguments).     *)
(***************************************************************************)
Str(x) == [str |-> x]
Lst(l) == [list |-> l]
Tup(a) == [tuple |-> a]
IsTuple(m) == "tuple" \in DOMAIN m

Decl(cc, ptrs, name, args, arrays) ==
    [call_conv |-> cc, ptrs |-> ptrs, arrays |-> arrays, args |-> args,
     ref |-> FALSE, center |-> <<>>, name |-> name]
NoArgs == [present |-> FALSE, list |-> <<>>]
\* "( center ) args": a declarator in parentheses followed by arguments.
DeclCenter(center, args) ==
    [call_conv |-> <<>>, ptrs |-> <<>>, arrays |-> <<>>, args |-> args,
     ref |-> FALSE, center |-> <<center>>, name |-> NoneS]
Args(l) == [present |-> TRUE, list |-> l]
Arg(typ, decl) == [type |-> typ, decl |-> decl, val |-> NoneS]

RECURSIVE Stars(_)
Stars(n) == IF n = 0 THEN "" ELSE "*" \o Stars(n - 1)

\* The result is [err, name, toks]; err is the exception that left the call.
RECURSIVE process_declarator(_, _)
process_declarator(values, decl) ==
    LET t1 == IF Len(decl.call_conv) > 0 THEN <<Str(decl.call_conv[1])>> ELSE <<>>
        t2 == IF Len(decl.ptrs) > 0 THEN <<Str(Stars(Len(decl.ptrs)))>> ELSE <<>>
        t3 == IF Len(decl.arrays) > 0
              THEN <<Lst([j \in 1..Len(decl.arrays) |->
                             eval_expr(values, decl.arrays[j])])>>
              ELSE <<>>
        \* process_type(a['type'], a['decl']) + (a['val'][0],) per argument
        as == [j \in 1..Len(decl.args.list) |->
                  process_declarator(values, decl.args.list[j].decl)]
        aerr == {j \in 1..Len(as) : as[j].err # "none"}
        t4 == IF ~decl.args.present THEN <<>>
              ELSE <<Tup([j \in 1..Len(as) |->
                             <<as[j].name,
                               <<Str(decl.args.list[j].type)>> \o as[j].toks,
                               decl.args.list[j].val>>])>>
        t5 == IF decl.ref THEN <<Str("&")>> ELSE <<>>
        toks == t1 \o t2 \o t3 \o t4 \o t5
    IN IF aerr # {}
       THEN [err |-> as[CHOOSE j \in aerr : \A q \in aerr : j <= q].err,
             name |-> NoneS, toks |-> <<>>]
       ELSE IF decl.center # <<>>
       THEN \* line 928 calls self.processDeclarator, which CParser lacks
            [err |-> "AttributeError", name |-> NoneS, toks |-> toks]
       ELSE [err |-> "none", name |-> decl.name, toks |-> toks]

process_type(values, typ, decl) ==
    LET d == process_declarator(values, decl)
    IN [err |-> d.err, name |-> d.name, toks |-> <<Str(typ)>> \o d.toks]

(***************************************************************************)
(* Structs and unions (lines 1019-1075).                                   *)
(***************************************************************************)
\* pl is self.pack_list[self.current_file].
packing_at(pl, line) ==
    LET later == {j \in 1..Len(pl) : pl[j][1] > line}
        stop == IF later = {} THEN Len(pl) + 1
                ELSE CHOOSE j \in later : \A q \in later : j <= q
    IN IF stop = 1 THEN None ELSE pl[stop - 1][2]

NumStr(n) ==
    CASE n = 0 -> "0" [] n = 1 -> "1" [] n = 2 -> "2" [] n = 3 -> "3"
      [] n = 4 -> "4" [] n = 5 -> "5" [] n = 6 -> "6" [] n = 7 -> "7"
      [] n = 8 -> "8" [] n = 9 -> "9"

\* A process_struct that registers every occurrence of a tag, with or
\* without a member list.
process_struct_always(r, cf, pl, lno, t) ==
    LET str_typ == t.struct_type
        cat == str_typ \o "s"
        member(m) ==
            [j \in 1..Len(m.decl_list) |->
                LET pt == process_type(r.defs.values, m.type, m.decl_list[j])
                IN <<pt.name, pt.toks, None>>]
        struct == Concat([j \in 1..Len(t.members) |-> member(t.members[j])])
    IN [r |-> add_def(add_def(r, cf, cat, t.name,
                              [pack |-> packing_at(pl, lno), members |-> struct]),
                      cf, "types", str_typ \o " " \o t.name,
                      <<Str(str_typ), Str(t.name)>>),
        type |-> str_typ \o " " \o t.name]

\* t is the parse result of self.struct_type: [struct_type, name, members];
\* name "" is an anonymous struct, members <<>> a reference without a body.
\* A member is a variable_decl [type, decl_list] of fundamental type.
\* lno is lineno(l, s).  The result is the registry pair and the type name.
process_struct(r, cf, pl, lno, t) ==
    LET str_typ == t.struct_type
        cat == str_typ \o "s"
        packing == packing_at(pl, lno)
        free == {n \in 0..9 : ("anon_" \o str_typ \o NumStr(n)) \notin DOMAIN r.defs[cat]}
        sname == IF t.name = ""
                 THEN "anon_" \o str_typ \o
                      NumStr(CHOOSE n \in free : \A q \in free : n <= q)
                 ELSE t.name
        member(m) ==
            IF Len(m.decl_list) = 0 THEN <<[err |-> "none",
                                            mem |-> <<NoneS, <<Str(m.type)>>, None>>]>>
            ELSE [j \in 1..Len(m.decl_list) |->
                     LET pt == process_type(r.defs.values, m.type, m.decl_list[j])
                     IN [err |-> pt.err, mem |-> <<pt.name, pt.toks, None>>]]
        ms == Concat([j \in 1..Len(t.members) |-> member(t.members[j])])
        failed == \E j \in 1..Len(ms) : ms[j].err # "none"
        struct == [j \in 1..Len(ms) |-> ms[j].mem]
    IN \* (the third disjunct of line 1054, an entry equal to {}, never holds:
       \* every entry add_def stores here is a {'pack', 'members'} record)
       IF Len(t.members) > 0 \/ sname \notin DOMAIN r.defs[cat]
       THEN IF failed
            THEN \* the exception is caught and logged at line 1074
                 [r |-> r, type |-> NoneS]
            ELSE [r |-> add_def(add_def(r, cf, cat, sname,
                                        [pack |-> packing, members |-> struct]),
                                cf, "types", str_typ \o " " \o sname,
                                <<Str(str_typ), Str(sname)>>),
                  type |-> str_typ \o " " \o sname]
       ELSE [r |-> r, type |-> str_typ \o " " \o sname]

(***************************************************************************)
(* Enums (lines 967-1001).  t is the parse result of self.enum_type        *)
(* (lines 884-890) for a definition with a body: name is <<>> for an       *)
(* anonymous enum (t.name == '') and <<n>> otherwise, members is a         *)
(* sequence of [name, value, valueName], value and valueName "" when the   *)
(* member has none.                                                        *)
(***************************************************************************)
EnumType(name, members) ==
    [struct |-> FALSE, enum |-> TRUE, t |-> [name |-> name, members |-> members]]
EnumMember(name, value, valueName) ==
    [name |-> name, value |-> value, valueName |-> valueName]

\* The loop of lines 987-995 from member j on, i being the running value and
\* enum the map built so far; err is the exception that ends the loop.
RECURSIVE enum_members(_, _, _, _, _, _)
enum_members(r, cf, members, j, i, enum) ==
    IF j > Len(members) THEN [r |-> r, enum |-> enum, err |-> "none"]
    ELSE LET v == members[j]
             i1 == IF v.value # "" THEN ToInt(v.value) ELSE i
             i2 == IF v.valueName # "" THEN enum[v.valueName] ELSE i1
         IN IF v.valueName # "" /\ v.valueName \notin DOMAIN enum
            THEN [r |-> r, enum |-> enum, err |-> "KeyError"]
            ELSE enum_members(add_def(r, cf, "values", v.name, i2), cf,
                              members, j + 1, i2 + 1, Put(enum, v.name, i2))

\* The result is the registry pair and the type name returned (None after
\* an exception, which line 1000 catches).
process_enum(r, cf, t) ==
    LET free == {n \in 0..9 : ("anonEnum" \o NumStr(n)) \notin DOMAIN r.defs.enums}
        name == IF t.name = <<>>
                THEN "anonEnum" \o NumStr(CHOOSE n \in free : \A q \in free : n <= q)
                ELSE t.name[1]
        m == enum_members(r, cf, t.members, 1, 0, <<>>)
    IN IF name \in DOMAIN r.defs.enums
       THEN [r |-> r, type |-> "enum " \o name]
       ELSE IF m.err # "none"
       THEN [r |-> m.r, type |-> NoneS]
       ELSE [r |-> add_def(add_def(m.r, cf, "enums", name, m.enum),
                           cf, "types", "enum " \o name,
                           <<Str("enum"), Str(name)>>),
             type |-> "enum " \o name]

(***************************************************************************)
(* Variable declarations and parse_defs (lines 720-747, 1077-1096).        *)
(* A code line holding a construct is                                      *)
(*   [k |-> "construct", c |-> "variable", type, decl_list, value]         *)
(* the parse result of self.variable_decl (lines 836-849); type is         *)
(* [struct |-> FALSE, text] for a fundamental type or a typedef name and   *)
(* [struct |-> TRUE, t] for a struct_type, whose parse action              *)
(* (process_struct) runs when the type specifier is matched.               *)
(***************************************************************************)
Fund(text) == [struct |-> FALSE, text |-> text]
StructType(kw, name, members) ==
    [struct |-> TRUE, t |-> [struct_type |-> kw, name |-> name, members |-> members]]
Member(typ, decl_list) == [type |-> typ, decl_list |-> decl_list]
Variable(type, decl_list, value) ==
    [k |-> "construct", c |-> "variable", type |-> type,
     decl_list |-> decl_list, value |-> value]

\* The body of the loop of lines 1081-1093 for one declarator, pt being
\* the result of process_type: the registry pair and the exception raised.
add_variable(r, cf, val, pt) ==
    IF pt.err # "none" THEN [r |-> r, err |-> pt.err]
    ELSE IF IsTuple(Last(pt.toks))
    THEN [r |-> add_def(r, cf, "functions", pt.name,
                        <<Front(pt.toks), Last(pt.toks)>>),
          err |-> "none"]
    ELSE [r |-> add_def(add_def(r, cf, "variables", pt.name, <<val, pt.toks>>),
                        cf, "values", pt.name, val),
          err |-> "none"]

\* The loop of lines 1081-1093 from declarator j on, a being the registry
\* pair and the exception so far; an exception ends it (caught and logged
\* at line 1095) and keeps what was registered before.
RECURSIVE process_variable_from(_, _, _, _, _, _)
process_variable_from(a, cf, typ, decl_list, val, j) ==
    IF j > Len(decl_list) \/ a.err # "none" THEN a.r
    ELSE process_variable_from(
             add_variable(a.r, cf, val,
                          process_type(a.r.defs.values, typ, decl_list[j])),
             cf, typ, decl_list, val, j + 1)

process_variable(r, cf, typ, t) ==
    process_variable_from([r |-> r, err |-> "none"], cf, typ, t.decl_list,
                          eval_expr(r.defs.values, t.value), 1)

\* type_decl (lines 830-833): typedef, a type specifier and declarators.
Typedef(type, decl_list) ==
    [k |-> "construct", c |-> "typedef", type |-> type,
     decl_list |-> decl_list, value |-> <<>>]

\* The body of the loop of lines 1103-1106 for one declarator, pt being
\* the result of process_type.
add_typedef(r, cf, pt) ==
    IF pt.err # "none" THEN [r |-> r, err |-> pt.err]
    ELSE [r |-> add_def(r, cf, "types", pt.name, pt.toks), err |-> "none"]

\* The loop of lines 1103-1106 from declarator j on, a being the registry
\* pair and the exception so far.  process_typedef has no try: the
\* exception of process_type leaves it.
RECURSIVE process_typedef_from(_, _, _, _, _)
process_typedef_from(a, cf, typ, decl_list, j) ==
    IF j > Len(decl_list) \/ a.err # "none" THEN a
    ELSE process_typedef_from(
             add_typedef(a.r, cf, process_type(a.r.defs.values, typ, decl_list[j])),
             cf, typ, decl_list, j + 1)

process_typedef(r, cf, typ, t) ==
    process_typedef_from([r |-> r, err |-> "none"], cf, typ, t.decl_list, 1)

\* The parse action of the type specifier of the construct t, on the line
\* with 1-based number lno: the registry pair and the type name.
parse_type_spec(r, cf, pl, lno, t) ==
    IF t.type.struct THEN process_struct(r, cf, pl, lno, t.type.t)
    ELSE IF "enum" \in DOMAIN t.type THEN process_enum(r, cf, t.type.t)
    ELSE [r |-> r, type |-> t.type.text]

\* The parse action of the construct t, ts being the result of the one of
\* its type specifier.
parse_action(ts, cf, t) ==
    IF t.c = "typedef" THEN process_typedef(ts.r, cf, ts.type, t)
    ELSE [r |-> process_variable(ts.r, cf, ts.type, t), err |-> "none"]

\* One match of self.parser on the line with 1-based number lno: the parse
\* action of the type specifier, then the one of the construct.  err is
\* the exception that leaves the parse actions.
parse_construct(r, cf, pl, lno, t) ==
    parse_action(parse_type_spec(r, cf, pl, lno, t), cf, t)

\* parser.scanString over the preprocessed text, from line j on, a being
\* the registry pair and the exception so far; an exception of a parse
\* action ends the scan and leaves parse_defs.
RECURSIVE parse_defs_from(_, _, _, _, _)
parse_defs_from(a, cf, pl, text, j) ==
    IF j > Len(text) \/ a.err # "none" THEN a
    ELSE parse_defs_from(IF text[j].k = "construct"
                         THEN parse_construct(a.r, cf, pl, j, text[j]) ELSE a,
                         cf, pl, text, j + 1)

parse_defs(r, cf, pl, text) ==
    parse_defs_from([r |-> r, err |-> "none"], cf, pl, text, 1)

(***************************************************************************)
(* The cache (lines 237-336).  The cache file is NoFile or a pickled       *)
(* record [opts, file_defs, version, mtime].                               *)
(***************************************************************************)
NoFile == [k |-> "NoFile"]
cacheVersion == 22

KeyPath(f) == [dir |-> "", base |-> f]

\* The add_def calls of import_dict for one partition f, category by
\* category in the order of data_list.
RECURSIVE import_names(_, _, _, _, _)
import_names(r, f, k, names, data) ==
    IF names = {} THEN r
    ELSE LET n == CHOOSE x \in names : TRUE IN
         import_names(add_def(r, KeyPath(f), k, n, data[f][k][n]),
                      f, k, names \ {n}, data)

RECURSIVE import_cats(_, _, _, _)
import_cats(r, f, j, data) ==
    IF j > Len(data_list) THEN r
    ELSE import_cats(import_names(r, f, data_list[j],
                                  DOMAIN data[f][data_list[j]], data),
                     f, j + 1, data)

\* import_dict: the partitions in the order the dictionary yields them;
\* the result is the registry pair and the last value of current_file.
RECURSIVE import_dict(_, _, _, _)
import_dict(r, cf, keys, data) ==
    IF keys = {} THEN [r |-> r, cf |-> cf]
    ELSE LET f == CHOOSE x \in keys : TRUE IN
         import_dict(import_cats(r, f, 1, data), KeyPath(f), keys \ {f}, data)

\* load_cache: ret is "True", "False" or the exception that leaves it.
\* With check_validity the loop head of line 275 reads self.file_osrder,
\* an attribute no CParser has: AttributeError, raised outside the try of
\* line 282, so lines 276-304 are never reached.
\* A load_cache that imports whatever the file holds, valid or not.
load_cache_unchecked(r, cf, cache_file, check_validity) ==
    IF cache_file = NoFile
    THEN [ret |-> "False", r |-> r, cf |-> cf]
    ELSE LET imp == import_dict(r, cf, DOMAIN cache_file.file_defs,
                                cache_file.file_defs)
         IN [ret |-> "True", r |-> imp.r, cf |-> imp.cf]

load_cache(r, cf, cache_file, check_validity) ==
    IF cache_file = NoFile
    THEN [ret |-> "False", r |-> r, cf |-> cf]
    ELSE IF check_validity
    THEN [ret |-> "AttributeError", r |-> r, cf |-> cf]
    ELSE LET imp == import_dict(r, cf, DOMAIN cache_file.file_defs,
                                cache_file.file_defs)
         IN [ret |-> "True", r |-> imp.r, cf |-> imp.cf]

\* write_cache: line 334 reads self.cache_version, an attribute no CParser
\* has (the class defines cacheVersion): AttributeError before pickle.dump
\* opens the file.  The result is the exception and the cache file left.
write_cache(cache_file, opts, fdefs) ==
    [err |-> "AttributeError", file |-> cache_file]

\* load_file (lines 353-375) for one path: the parser fields after it.
load_file(o, path, exists) ==
    IF ~exists
    THEN [o EXCEPT !.files = Put(@, path, NoText)]
    ELSE [o EXCEPT !.files = Put(@, path, <<[k |-> "raw"]>>),
                   !.file_order = Append(@, path),
                   !.replace = Put(@, path.base, NoneS),
                   !.names = Append(@, path.base)]

(***************************************************************************)
(* Inputs.  A behaviour draws its units from one family: the lines a unit  *)
(* may hold, the file lists a parser may be given and the cache argument.  *)
(***************************************************************************)
MaxLinesMacro == 3
MaxLinesCond == 5
MaxLinesPack == 4
MaxLinesCache == 2
MaxLinesDecl == 3
MaxParsers == 2
MaxLinesEnum == 3
MaxLinesFn == 3
MaxLinesTypes == 3
MaxLinesGuard == 4
MaxLinesVars == 3
MaxLinesStructs == 4
MaxLinesUnits == 2

PathA == [dir |-> "inc", base |-> "a.h"]
PathB == [dir |-> "inc", base |-> "b.h"]
Paths == {PathA, PathB}
CachePath == "a.cache"

StructS == Variable(StructType("struct", "S",
                        <<Member("int", <<Decl(<<>>, <<>>, "a", NoArgs, <<>>)>>),
                          Member("char", <<Decl(<<>>, <<>>, "b", NoArgs, <<>>)>>)>>),
                    <<>>, <<>>)
\* struct S;
StructRef == Variable(StructType("struct", "S", <<>>), <<>>, <<>>)
\* struct S v;
StructVar == Variable(StructType("struct", "S", <<>>),
                      <<Decl(<<>>, <<>>, "v", NoArgs, <<>>)>>, <<>>)
\* union U { int a; };
UnionU == Variable(StructType("union", "U",
                       <<Member("int", <<Decl(<<>>, <<>>, "a", NoArgs, <<>>)>>)>>),
                   <<>>, <<>>)
\* union U u;
UnionVar == Variable(StructType("union", "U", <<>>),
                     <<Decl(<<>>, <<>>, "u", NoArgs, <<>>)>>, <<>>)
\* int *x[10];
DeclPtrArray == Variable(Fund("int"),
                    <<Decl(<<>>, <<"*">>, "x", NoArgs, <<<<"10">>>>)>>, <<>>)
\* int y = 3;
DeclInit == Variable(Fund("int"), <<Decl(<<>>, <<>>, "y", NoArgs, <<>>)>>, <<"3">>)
\* int f(int);
DeclProto == Variable(Fund("int"),
                 <<Decl(<<>>, <<>>, "f",
                        Args(<<Arg("int", Decl(<<>>, <<>>, NoneS, NoArgs, <<>>))>>),
                        <<>>)>>, <<>>)
\* int **p, q[2];
DeclTwo == Variable(Fund("int"),
               <<Decl(<<>>, <<"*", "*">>, "p", NoArgs, <<>>),
                 Decl(<<>>, <<>>, "q", NoArgs, <<<<"2">>>>)>>, <<>>)

\* int (*fp)(int);
DeclFp ==
    Variable(Fund("int"),
             <<DeclCenter(Decl(<<>>, <<"*">>, "fp", NoArgs, <<>>),
                          Args(<<Arg("int", Decl(<<>>, <<>>, NoneS, NoArgs, <<>>))>>))>>,
             <<>>)
\* int (*g)(int), z;
DeclFpThenVar ==
    Variable(Fund("int"),
             <<DeclCenter(Decl(<<>>, <<"*">>, "g", NoArgs, <<>>),
                          Args(<<Arg("int", Decl(<<>>, <<>>, NoneS, NoArgs, <<>>))>>)),
               Decl(<<>>, <<>>, "z", NoArgs, <<>>)>>,
             <<>>)
\* int a, b = 2;
DeclTwoInit == Variable(Fund("int"),
                   <<Decl(<<>>, <<>>, "a", NoArgs, <<>>),
                     Decl(<<>>, <<>>, "b", NoArgs, <<>>)>>, <<"2">>)

\* enum Color { RED, GREEN, BLUE=5, YELLOW };
EnumColor == Variable(EnumType(<<"Color">>,
                          <<EnumMember("RED", "", ""), EnumMember("GREEN", "", ""),
                            EnumMember("BLUE", "5", ""), EnumMember("YELLOW", "", "")>>),
                      <<>>, <<>>)
\* enum Mode { A = 2, B = A, C };
EnumAlias == Variable(EnumType(<<"Mode">>,
                          <<EnumMember("A", "2", ""), EnumMember("B", "", "A"),
                            EnumMember("C", "", "")>>),
                      <<>>, <<>>)
\* enum { P, Q };
EnumAnon == Variable(EnumType(<<>>, <<EnumMember("P", "", ""),
                                      EnumMember("Q", "", "")>>),
                     <<>>, <<>>)
\* enum Tint { PALE = RED, DARK };
EnumCross == Variable(EnumType(<<"Tint">>,
                          <<EnumMember("PALE", "", "RED"),
                            EnumMember("DARK", "", "")>>),
                      <<>>, <<>>)

\* typedef int A;
TypedefIntA == Typedef(Fund("int"), <<Decl(<<>>, <<>>, "A", NoArgs, <<>>)>>)
\* typedef A B;
TypedefAB == Typedef(Fund("A"), <<Decl(<<>>, <<>>, "B", NoArgs, <<>>)>>)
\* typedef B A;
TypedefBA == Typedef(Fund("B"), <<Decl(<<>>, <<>>, "A", NoArgs, <<>>)>>)
\* typedef X *C;
TypedefXC == Typedef(Fund("X"), <<Decl(<<>>, <<"*">>, "C", NoArgs, <<>>)>>)
\* typedef signed int D;
TypedefSignedD == Typedef(Fund("signed int"), <<Decl(<<>>, <<>>, "D", NoArgs, <<>>)>>)
\* typedef struct S { int a; char b; } T;
TypedefStructT == Typedef(StructS.type, <<Decl(<<>>, <<>>, "T", NoArgs, <<>>)>>)
\* typedef int (*fp)(int);
TypedefFp ==
    Typedef(Fund("int"),
            <<DeclCenter(Decl(<<>>, <<"*">>, "fp", NoArgs, <<>>),
                         Args(<<Arg("int", Decl(<<>>, <<>>, NoneS, NoArgs, <<>>))>>))>>)

\* #define SQUARE(x) ((x)*(x))
DefineSquare ==
    Dir("define", <<"SQUARE", "(", "x", ")",
                    "(", "(", "x", ")", "*", "(", "x", ")", ")">>)

\* #define ADD(a,b) b+a
DefineAdd == Dir("define", <<"ADD", "(", "a", ",", "b", ")", "b", "+", "a">>)
\* SQUARE(3+1)
SquareCall == Code(<<"SQUARE", "(", "3", "+", "1", ")">>)
\* y = ADD(1, 2*3);
AddCall == Code(<<"y", "=", "ADD", "(", "1", ",", "2", "*", "3", ")", ";">>)

Alphabet(fam) ==
    CASE fam = "macro" ->
           {Dir("define", <<"M", "1">>), Dir("define", <<"N", "M">>),
            Dir("undef", <<"M">>), Code(<<"M", "\"M\"", "N">>)}
      [] fam = "cond" ->
           {Dir("if", <<"0">>), Dir("if", <<"1">>), Dir("ifdef", <<"M">>),
            Dir("elif", <<"1">>), Dir("else", <<>>), Dir("endif", <<>>),
            Dir("define", <<"M", "1">>), Dir("pragma", <<"once">>),
            Code(<<"x", "M">>)}
      [] fam = "pack" ->
           {Dir("pragma", <<"pack", "(", "2", ")">>),
            Dir("pragma", <<"pack", "(", "push", ",", "1", ")">>),
            Dir("pragma", <<"pack", "(", "push", ")">>),
            Dir("pragma", <<"pack", "(", "pop", ")">>),
            Dir("pragma", <<"pack", "(", "push", ",", "t", ",", "4", ")">>),
            Dir("pragma", <<"pack", "(", "pop", ",", "t", ")">>),
            Dir("pragma", <<"once">>),
            Dir("if", <<"0">>), Dir("endif", <<>>),
            StructS}
      [] fam = "cache" ->
           {Dir("define", <<"M", "1">>), Code(<<"M">>)}
      [] fam = "decl" ->
           {DeclPtrArray, DeclInit, DeclProto, DeclTwo, StructS}
      [] fam = "enum" ->
           {EnumColor, EnumAlias, EnumAnon, EnumCross}
      [] fam = "fnmacro" ->
           {DefineSquare, DefineAdd,
            Dir("define", <<"SQ", "SQUARE">>), Dir("define", <<"SQUARE", "2">>),
            Dir("undef", <<"SQUARE">>),
            SquareCall, AddCall, Code(<<"ADD", "(", "1", ")">>)}
      [] fam = "types" ->
           {TypedefIntA, TypedefAB, TypedefBA, TypedefXC, TypedefSignedD,
            TypedefStructT, TypedefFp, DeclInit}
      [] fam = "vars" ->
           {DeclFp, DeclFpThenVar, DeclInit, DeclProto, DeclTwo, DeclTwoInit}
      [] fam = "structs" ->
           {StructS, StructRef, StructVar, UnionU, UnionVar,
            Dir("pragma", <<"pack", "(", "2", ")">>),
            Dir("pragma", <<"pack", "(", "push", ",", "1", ")">>)}
      [] fam = "units" ->
           {Dir("define", <<"M", "1">>), Dir("define", <<"N", "M">>),
            Dir("undef", <<"M">>), DeclInit}
      [] fam = "guard" ->
           {Dir("if", <<"0">>), Dir("if", <<"1">>), Dir("elif", <<"1">>),
            Dir("else", <<>>), Dir("endif", <<>>),
            Dir("define", <<"M", "1">>), Dir("undef", <<"M">>),
            Dir("pragma", <<"pack", "(", "2", ")">>),
            Dir("pragma", <<"pack", "(", "push", ",", "1", ")">>),
            Dir("pragma", <<"pack", "(", "pop", ")">>)}

\* The arguments eval_type is called with.
EvalArgs(fam) ==
    IF fam = "types"
    THEN {<<Str("A")>>, <<Str("B"), Str("*")>>, <<Str("C")>>, <<Str("D")>>,
          <<Str("T"), Lst(<<2>>)>>, <<Str("unsigned int")>>}
    ELSE {<<Str("int"), Str("*")>>}

MaxLines(fam) ==
    CASE fam = "macro" -> MaxLinesMacro [] fam = "cond" -> MaxLinesCond
      [] fam = "pack" -> MaxLinesPack [] fam = "cache" -> MaxLinesCache
      [] fam = "decl" -> MaxLinesDecl [] fam = "enum" -> MaxLinesEnum
      [] fam = "fnmacro" -> MaxLinesFn [] fam = "types" -> MaxLinesTypes
      [] fam = "guard" -> MaxLinesGuard [] fam = "vars" -> MaxLinesVars
      [] fam = "structs" -> MaxLinesStructs [] fam = "units" -> MaxLinesUnits

FileLists(fam) ==
    CASE fam \in {"macro", "units"} -> {<<PathA, PathB>>}
      [] fam = "cache" -> {<<PathA>>, <<PathB>>, <<PathA, PathB>>}
      [] OTHER -> {<<PathA>>}

CacheArgs(fam) == IF fam = "cache" THEN {NoneS, CachePath} ELSE {NoneS}
Parsers(fam) == IF fam = "cache" THEN MaxParsers ELSE 1

\* The keyword arguments (**args) a parser may be constructed with: none,
\* or macros = {'K': '7'}.
NoSeeds == <<>>
Seeds(fam) ==
    IF fam = "units" THEN {NoSeeds, [macros |-> [K |-> <<"7">>]]}
    ELSE {NoSeeds}

\* The options a parser given the file list fl and no keyword arguments
\* records, all files present.
OptsOf(fl) ==
    [files |-> [j \in 1..Len(fl) |-> fl[j].base],
     replace |-> [b \in {fl[j].base : j \in 1..Len(fl)} |-> NoneS],
     args |-> NoSeeds]

\* The cache files a run may start with: none, or one written earlier (by
\* this or another version of the library) for some file list.
CachedDefs ==
    "a.h" :> [EmptyDefs EXCEPT !.macros = [K |-> <<"7">>],
                               !.values = [K |-> 7]]
CacheFiles(fam) ==
    IF fam # "cache" THEN {NoFile}
    ELSE {NoFile} \cup
         [opts : {OptsOf(<<PathA>>), OptsOf(<<PathA, PathB>>)},
          file_defs : {CachedDefs},
          version : {cacheVersion - 1, cacheVersion, cacheVersion + 1},
          mtime : {1, 3}]

SourceFiles(fam) ==
    IF fam # "cache"
    THEN {[p \in Paths |-> [exists |-> TRUE, mtime |-> 2, lines |-> <<>>,
                            closed |-> FALSE]]}
    ELSE {[p \in Paths |-> [exists |-> (p = PathA \/ e), mtime |-> 2,
                            lines |-> <<>>, closed |-> FALSE]] : e \in BOOLEAN}

(***************************************************************************)
(* eval_type (lines 1189-1225).  A type is a sequence whose head Str(t)    *)
(* holds the text of the type specifier, the words joined by single        *)
(* spaces (type_spec, line 766), followed by the modifiers.                *)
(***************************************************************************)
\* base_types + size_modifiers + sign_modifiers (lines 1279-1282)
names == {"char", "bool", "void", "int", "float", "double", "__int64",
          "short", "long", "signed", "unsigned"}

\* typ[0].split() for the type texts of the input families.
split(text) ==
    CASE text = "" -> <<>>
      [] text = "signed int" -> <<"signed", "int">>
      [] text = "unsigned int" -> <<"unsigned", "int">>
      [] text = "struct S" -> <<"struct", "S">>
      [] OTHER -> <<text>>

\* re.sub(r'\bsigned\b', '', text).strip() of line 1212
strip_signed(text) ==
    CASE text = "signed int" -> "int"
      [] text = "signed" -> ""
      [] OTHER -> text

is_fund_type(typ) ==
    \/ Len(split(typ[1].str)) > 1
       /\ split(typ[1].str)[1] \in {"struct", "union", "enum"}
    \/ \A j \in 1..Len(split(typ[1].str)) : split(typ[1].str)[j] \in names

\* An iteration of the loop of line 1209 that neither checks nor records
\* the names it has substituted.
eval_type_step_unguarded(types, e) ==
    IF is_fund_type(e.typ)
    THEN [e EXCEPT !.st = "returned",
                   !.typ = <<Str(strip_signed(e.typ[1].str))>> \o Tail(e.typ)]
    ELSE IF e.typ[1].str \notin DOMAIN types
    THEN [e EXCEPT !.st = "raised", !.exc = "Unknown type"]
    ELSE [e EXCEPT !.typ = types[e.typ[1].str] \o Tail(e.typ)]

\* An iteration that returns the type it cannot resolve.
eval_type_step_lenient(types, e) ==
    IF is_fund_type(e.typ) \/ e.typ[1].str \notin DOMAIN types
    THEN [e EXCEPT !.st = "returned"]
    ELSE IF \E j \in 1..Len(e.used) : e.used[j] = e.typ[1].str
    THEN [e EXCEPT !.st = "raised", !.exc = "Recursive loop"]
    ELSE [e EXCEPT !.used = Append(@, e.typ[1].str),
                   !.typ = types[e.typ[1].str] \o Tail(e.typ)]

\* One iteration of the loop of line 1209: e holds the locals typ and used,
\* st is "run" while the loop runs, then "returned" (typ is the value) or
\* "raised" (exc is the exception).
eval_type_step(types, e) ==
    LET parent == e.typ[1].str IN
    IF is_fund_type(e.typ)
    THEN [e EXCEPT !.st = "returned",
                   !.typ = <<Str(strip_signed(e.typ[1].str))>> \o Tail(e.typ)]
    ELSE IF \E j \in 1..Len(e.used) : e.used[j] = parent
    THEN [e EXCEPT !.st = "raised", !.exc = "Recursive loop"]
    ELSE IF parent \notin DOMAIN types
    THEN [e EXCEPT !.st = "raised", !.exc = "Unknown type",
                   !.used = Append(@, parent)]
    ELSE [e EXCEPT !.used = Append(@, parent),
                   !.typ = types[parent] \o Tail(e.typ)]

(***************************************************************************)
(* The state machine.                                                      *)
(***************************************************************************)
NoCall == [cache |-> NoneS, fidx |-> 0]
NoPP == [if_true |-> <<>>, if_hit |-> <<>>, pack_stack |-> <<>>,
         packing |-> None, result |-> <<>>, i |-> 0]
NoEval == [st |-> "none", arg |-> <<>>, typ |-> <<>>, used |-> <<>>,
           exc |-> "none"]
NoHist ==
    [given |-> <<>>,        \* the file list the current parser was given
     parsed |-> 0,          \* units the current parser has preprocessed and parsed
     lc |-> [called |-> FALSE, file |-> NoFile, ret |-> "False",
             before |-> EmptyDefs, after |-> EmptyDefs],
                            \* the load_cache call of process_all
     first |-> [set |-> FALSE, defs |-> EmptyDefs, opts |-> OptsOf(<<>>),
                cache |-> NoneS, parsed |-> 0, units |-> 0],
                            \* the parser constructed before the current one
     saved |-> <<>>,        \* packing in effect before each outstanding push
     popx |-> [is |-> FALSE, expect |-> None],
                            \* set by an untagged pop that has a matching push
     packlog |-> <<>>,      \* <<line index, packing>> after each pack directive
     structlines |-> <<>>,  \* line indices of the struct definitions emitted
     expand |-> [called |-> FALSE, governing |-> TRUE]]
                            \* whether the last line read was given to
                            \* expand_macros, and whether the conditionals
                            \* that govern the line were all true

InitOf(fam) ==
    /\ family = fam
    /\ python \in {2, 3}
    /\ pc = "new"
    /\ exc = "none"
    /\ gen = 0
    /\ disk \in [src : SourceFiles(fam), cache : CacheFiles(fam)]
    /\ init_opts = OptsOf(<<>>)
    /\ file_order = <<>>
    /\ files = <<>>
    /\ defs = EmptyDefs
    /\ file_defs = <<>>
    /\ current_file = NonePath
    /\ pack_list = <<>>
    /\ call = NoCall
    /\ pp = NoPP
    /\ ecall = NoEval
    /\ hist = NoHist

RECURSIVE load_files(_, _, _)
load_files(o, fl, src) ==
    IF fl = <<>> THEN o
    ELSE load_files(load_file(o, Head(fl), src[Head(fl)].exists), Tail(fl), src)

\* The <<category, name>> pairs of the keyword arguments args.
SeedPairs(args) ==
    UNION {{<<t, k>> : k \in DOMAIN args[t]} : t \in DOMAIN args}

\* The registry after the loop of lines 163-165.
ConstructSeeded(r) ==
    /\ defs' = r.defs
    /\ file_defs' = r.file_defs

\* CParser(files, process_all=False, **args): lines 127-175.
Construct ==
    /\ pc = "new" \/ (pc \in {"done", "raised"} /\ gen < Parsers(family))
    /\ \E fl \in FileLists(family), args \in Seeds(family) :
          LET o == load_files([files |-> <<>>, file_order |-> <<>>,
                               replace |-> <<>>, names |-> <<>>], fl, disk.src)
          IN /\ init_opts' = [files |-> o.names, replace |-> o.replace,
                               args |-> args]
             /\ ConstructSeeded(
                    seed_defs([defs |-> EmptyDefs, file_defs |-> <<>>], args,
                              SeedPairs(args)))
             /\ file_order' = o.file_order
             /\ files' = o.files
             /\ hist' = [NoHist EXCEPT
                           !.given = fl,
                           !.first = IF gen = 0 THEN NoHist.first
                                     ELSE [set |-> TRUE, defs |-> defs,
                                           opts |-> init_opts,
                                           cache |-> call.cache,
                                           parsed |-> hist.parsed,
                                           units |-> Len(file_order)]]
    /\ current_file' = NonePath
    /\ pack_list' = <<>>
    /\ gen' = gen + 1
    /\ pc' = "idle"
    /\ exc' = "none"
    /\ call' = NoCall
    /\ pp' = NoPP
    /\ ecall' = NoEval
    /\ UNCHANGED <<family, python, disk>>

\* process_all(cache): lines 201-208.
ProcessAllBegin ==
    /\ pc = "idle"
    /\ \E cache \in CacheArgs(family) :
          LET lc == IF cache = NoneS
                    THEN [ret |-> "False", r |-> [defs |-> defs, file_defs |-> file_defs],
                          cf |-> current_file]
                    ELSE load_cache([defs |-> defs, file_defs |-> file_defs],
                                    current_file, disk.cache, TRUE)
          IN /\ call' = [cache |-> cache, fidx |-> 1]
             /\ defs' = lc.r.defs
             /\ file_defs' = lc.r.file_defs
             /\ current_file' = lc.cf
             /\ hist' = [hist EXCEPT !.lc = [called |-> cache # NoneS,
                                             file |-> disk.cache,
                                             ret |-> lc.ret,
                                             before |-> defs,
                                             after |-> lc.r.defs]]
             /\ pc' = CASE lc.ret = "True" -> "done"
                        [] lc.ret = "False" -> "loop"
                        [] OTHER -> "raised"
             /\ exc' = IF lc.ret \in {"True", "False"} THEN "none" ELSE lc.ret
    /\ UNCHANGED <<family, python, ecall, gen, disk, init_opts, file_order,
                   files, pack_list, pp>>

\* The head of the loop of line 209, remove_comments, and preprocess up to
\* its line loop (lines 418-448).
PreprocessBegin ==
    /\ pc = "loop"
    /\ call.fidx <= Len(file_order)
    /\ LET f == file_order[call.fidx] IN
       IF files[f] = NoText
       THEN /\ pc' = "raised"
            /\ exc' = "Could not find header file"
            /\ UNCHANGED <<current_file, pack_list, pp, hist>>
       ELSE /\ pc' = "pp"
            /\ exc' = "none"
            /\ current_file' = f
            /\ pack_list' = Put(pack_list, f, <<<<0, None>>>>)
            /\ pp' = [if_true |-> <<TRUE>>, if_hit |-> <<>>,
                      pack_stack |-> <<<<None, NoneS>>>>, packing |-> None,
                      result |-> <<>>, i |-> 0]
            /\ hist' = [hist EXCEPT !.saved = <<>>, !.popx = NoHist.popx,
                                    !.packlog = <<>>, !.structlines = <<>>]
    /\ UNCHANGED <<family, python, gen, disk, init_opts, file_order, files, defs,
                   ecall, file_defs, call>>

\* What the properties remember of line ln, with index i, of the unit being
\* preprocessed: p is the state before the line and t the state after it.
Observe(h, p, t, i, ln) ==
    LET active == p.if_true # <<>> /\ Last(p.if_true)
        opts == IF ln.k = "dir" /\ ln.d = "pragma" /\ active
                THEN pack_opts(ln.rest) ELSE <<>>
        tag == LastOpt(opts, "id", NoneS)
        push == \E j \in 1..Len(opts) : opts[j] = "push"
        pop == opts # <<>> /\ ~push /\ opts[1] = "pop"
        tagged == {j \in 1..Len(h.saved) : h.saved[j][2] = tag}
        saved == IF push THEN Append(h.saved, <<p.packing, tag>>)
                 ELSE IF pop /\ tag = NoneS /\ h.saved # <<>> THEN Front(h.saved)
                 ELSE IF pop /\ tag # NoneS /\ tagged # {}
                 THEN SubSeq(h.saved, 1,
                             (CHOOSE j \in tagged : \A q \in tagged : q <= j) - 1)
                 ELSE h.saved
        popx == IF pop /\ tag = NoneS /\ h.saved # <<>> /\ t.err = "none"
                THEN [is |-> TRUE, expect |-> Last(h.saved)[1]]
                ELSE NoHist.popx
        isstruct == ln.k = "construct" /\ ln.type.struct
                    /\ Len(ln.type.t.members) > 0 /\ active
    IN [h EXCEPT !.saved = saved,
                 !.popx = popx,
                 !.packlog = IF opts # <<>> /\ t.err = "none"
                             THEN Append(@, <<i, t.packing>>) ELSE @,
                 !.structlines = IF isstruct THEN Append(@, i) ELSE @,
                 !.expand = [called |-> t.expanded,
                             governing |->
                                 IF ln.k = "dir" /\ ln.d \in {"elif", "else", "endif"}
                                 THEN All(Front(p.if_true))
                                 ELSE All(p.if_true)]]

\* The locals and the registry after an iteration that read the line ln
\* and left the state t.
PreprocessLineEnd(t, ln) ==
    /\ defs' = t.r.defs
    /\ file_defs' = t.r.file_defs
    /\ pack_list' = [pack_list EXCEPT ![current_file] = t.pl]
    /\ pp' = [if_true |-> t.if_true, if_hit |-> t.if_hit,
              pack_stack |-> t.pack_stack, packing |-> t.packing,
              result |-> t.result,
              i |-> IF t.err = "none" THEN pp.i + 1 ELSE pp.i]
    /\ pc' = IF t.err = "none" THEN "pp" ELSE "raised"
    /\ exc' = t.err
    /\ hist' = Observe(hist, pp, t, pp.i, ln)

\* One iteration of the loop of line 449.  The text of a unit is read from
\* the disk line by line; a line not read before is any line of the family.
PreprocessLine ==
    /\ pc = "pp"
    /\ LET f == current_file
           src == disk.src[f]
           known == pp.i < Len(src.lines)
       IN \E ln \in (IF known THEN {src.lines[pp.i + 1]}
                     ELSE IF ~src.closed /\ Len(src.lines) < MaxLines(family)
                     THEN Alphabet(family) ELSE {}) :
             /\ disk' = IF known THEN disk
                        ELSE [disk EXCEPT !.src[f].lines = Append(@, ln)]
             /\ PreprocessLineEnd(
                    preprocess_line(
                        [r |-> [defs |-> defs, file_defs |-> file_defs],
                         if_true |-> pp.if_true, if_hit |-> pp.if_hit,
                         pack_stack |-> pp.pack_stack, packing |-> pp.packing,
                         pl |-> pack_list[f], result |-> pp.result,
                         err |-> "none", cont |-> FALSE, py |-> python,
                         expanded |-> FALSE],
                        f, pp.i, ln),
                    ln)
    /\ UNCHANGED <<family, python, ecall, gen, init_opts, file_order, files,
                   current_file, call>>

\* The end of the text: line 594.  text.split('\n') of line 442 has at least
\* one line.
PreprocessEnd ==
    /\ pc = "pp"
    /\ pp.i = Len(disk.src[current_file].lines)
    /\ pp.i >= 1
    /\ disk' = [disk EXCEPT !.src[current_file].closed = TRUE]
    /\ files' = [files EXCEPT ![current_file] = pp.result]
    /\ pc' = "parse"
    /\ UNCHANGED <<family, python, exc, gen, init_opts, file_order, defs, file_defs,
                   ecall, current_file, pack_list, call, pp, hist>>

\* parse_defs(f) and the step of the loop of line 209 to the next file.
ParseDefsReturn(a) ==
    /\ defs' = a.r.defs
    /\ file_defs' = a.r.file_defs
    /\ pc' = IF a.err = "none" THEN "loop" ELSE "raised"
    /\ exc' = a.err
    /\ call' = IF a.err = "none" THEN [call EXCEPT !.fidx = @ + 1] ELSE call
    /\ hist' = IF a.err = "none" THEN [hist EXCEPT !.parsed = @ + 1] ELSE hist

ParseDefs ==
    /\ pc = "parse"
    /\ current_file' = file_order[call.fidx]
    /\ ParseDefsReturn(parse_defs([defs |-> defs, file_defs |-> file_defs],
                                  file_order[call.fidx],
                                  pack_list[file_order[call.fidx]],
                                  files[file_order[call.fidx]]))
    /\ UNCHANGED <<family, python, gen, disk, init_opts, file_order, files,
                   ecall, pack_list, pp>>

\* After the last file: lines 231-235.
ProcessAllEnd ==
    /\ pc = "loop"
    /\ call.fidx > Len(file_order)
    /\ LET w == IF call.cache = NoneS THEN [err |-> "none", file |-> disk.cache]
                ELSE write_cache(disk.cache, init_opts, file_defs)
       IN /\ disk' = [disk EXCEPT !.cache = w.file]
          /\ pc' = IF w.err = "none" THEN "done" ELSE "raised"
          /\ exc' = w.err
    /\ UNCHANGED <<family, python, gen, init_opts, file_order, files, defs, file_defs,
                   ecall, current_file, pack_list, call, pp, hist>>

\* A call eval_type(typ) on the parser whose process_all has returned.
EvalTypeBegin ==
    /\ pc = "done"
    /\ \E typ \in EvalArgs(family) :
          ecall' = [st |-> "run", arg |-> typ, typ |-> typ, used |-> <<>>,
                 exc |-> "none"]
    /\ pc' = "eval"
    /\ UNCHANGED <<family, python, exc, gen, disk, init_opts, file_order, files,
                   defs, file_defs, current_file, pack_list, call, pp, hist>>

\* One iteration of the loop of eval_type; the parser is as it was when the
\* call returns or raises.
EvalTypeStep ==
    /\ pc = "eval"
    /\ ecall' = eval_type_step(defs.types, ecall)
    /\ pc' = IF ecall'.st = "run" THEN "eval" ELSE "done"
    /\ UNCHANGED <<family, python, exc, gen, disk, init_opts, file_order, files,
                   defs, file_defs, current_file, pack_list, call, pp, hist>>

Next ==
    \/ EvalTypeBegin
    \/ EvalTypeStep
    \/ Construct
    \/ ProcessAllBegin
    \/ PreprocessBegin
    \/ PreprocessLine
    \/ PreprocessEnd
    \/ ParseDefs
    \/ ProcessAllEnd

Init == InitOf("cache")
Spec == Init /\ [][Next]_vars
SpecMacro == InitOf("macro") /\ [][Next]_vars
SpecCond == InitOf("cond") /\ [][Next]_vars
SpecPack == InitOf("pack") /\ [][Next]_vars
SpecDecl == InitOf("decl") /\ [][Next]_vars
SpecEnum == InitOf("enum") /\ [][Next]_vars
SpecFn == InitOf("fnmacro") /\ [][Next]_vars
SpecTypes == InitOf("types") /\ [][Next]_vars
SpecGuard == InitOf("guard") /\ [][Next]_vars
SpecVars == InitOf("vars") /\ [][Next]_vars
SpecStructs == InitOf("structs") /\ [][Next]_vars
SpecUnits == InitOf("units") /\ [][Next]_vars
\* eval_type is a sequential loop: a call that has begun keeps taking steps.
SpecTypesFair == SpecTypes /\ WF_vars(EvalTypeStep)

(***************************************************************************)
(* Properties.                                                             *)
(***************************************************************************)
MacroNames == {"M", "N"}

\* The last #define or #undef of the name m in the lines.
LastDirective(lines, m) ==
    LET js == {j \in 1..Len(lines) :
                  /\ lines[j].k = "dir"
                  /\ lines[j].d \in {"define", "undef"}
                  /\ lines[j].rest # <<>>
                  /\ lines[j].rest[1] = m}
    IN IF js = {} THEN "none"
       ELSE lines[CHOOSE j \in js : \A q \in js : q <= j].d

\* C1: with units a.h then b.h processed by one parser (every directive of
\* the units is outside any conditional), while the lines of b.h read so far
\* are code lines: a name whose last directive in a.h is a #define is an
\* object macro of the registry, a name whose last directive in a.h is an
\* #undef is not, and every code line of b.h has been emitted with exactly
\* the names of the first kind replaced by their registered text.
C1_MacroVisibleAcrossUnits ==
    (/\ pc = "pp"
     /\ current_file = PathB
     /\ \A j \in 1..pp.i : disk.src[PathB].lines[j].k = "code")
    => LET U1 == disk.src[PathA].lines
           U2 == disk.src[PathB].lines
       IN /\ \A m \in MacroNames :
                /\ LastDirective(U1, m) = "define" => m \in DOMAIN defs.macros
                /\ LastDirective(U1, m) = "undef" => m \notin DOMAIN defs.macros
          /\ Len(pp.result) = pp.i
          /\ \A j \in 1..pp.i :
                pp.result[j] =
                    Code(Concat([q \in 1..Len(U2[j].toks) |->
                                    IF LastDirective(U1, U2[j].toks[q]) = "define"
                                    THEN defs.macros[U2[j].toks[q]]
                                    ELSE <<U2[j].toks[q]>>]))

\* a.h is "#define M 1 / #define N M / #undef M" and the first line of b.h,
\* "M "M" N", has been emitted as "M "M" 1".
C1_Witness ==
    /\ pc = "pp"
    /\ current_file = PathB
    /\ pp.i >= 1
    /\ disk.src[PathB].lines[1].k = "code"
    /\ LastDirective(disk.src[PathA].lines, "M") = "undef"
    /\ LastDirective(disk.src[PathA].lines, "N") = "define"
    /\ pp.result[1] = Code(<<"M", "\"M\"", "1">>)

IsConditional(ln) ==
    ln.k = "dir" /\ ln.d \in {"if", "ifdef", "ifndef", "elif", "else", "endif"}

\* lines is "#if 0", A, "#else", X, "#endif" with no conditional directive
\* inside A or X.
IfZeroElseShape(lines) ==
    /\ Len(lines) >= 3
    /\ lines[1] = Dir("if", <<"0">>)
    /\ Last(lines) = Dir("endif", <<>>)
    /\ \E e \in 2..(Len(lines) - 1) :
          /\ lines[e] = Dir("else", <<>>)
          /\ \A j \in 2..(Len(lines) - 1) : j # e => ~IsConditional(lines[j])

ElsePos(lines) == CHOOSE e \in 1..Len(lines) : lines[e] = Dir("else", <<>>)

\* The object macros the #define lines of X before line j have registered.
MacrosOfX(lines, j) ==
    IF \E q \in (ElsePos(lines) + 1)..(j - 1) :
           lines[q] = Dir("define", <<"M", "1">>)
    THEN "M" :> <<"1">>
    ELSE <<>>

\* C2: for a unit "#if 0 / A / #else / X / #endif" (A and X without
\* conditional directives), the preprocessed text has one line per source
\* line; the code lines of X survive (macro-expanded), and every directive
\* line and every line of A is an empty line.
C2_IfZeroElseKeepsOnlyElseBranch ==
    (/\ pc = "parse"
     /\ IfZeroElseShape(disk.src[PathA].lines))
    => LET lines == disk.src[PathA].lines
           out == files[PathA]
       IN /\ Len(out) = Len(lines)
          /\ \A j \in 1..Len(lines) :
                out[j] = IF j > ElsePos(lines) /\ lines[j].k = "code"
                         THEN Code(expand_object_macros(MacrosOfX(lines, j),
                                                        lines[j].toks))
                         ELSE EmptyLine

\* C3: when a first parser has parsed its units and process_all was given a
\* cache path, a second parser with the same options and the same cache path
\* ends process_all normally, with the first parser's registry and without
\* having parsed any unit.
C3_CacheRoundTrip ==
    (/\ gen = 2
     /\ pc \in {"done", "raised"}
     /\ hist.first.set
     /\ hist.first.cache = CachePath
     /\ hist.first.units >= 1
     /\ hist.first.parsed = hist.first.units
     /\ call.cache = CachePath
     /\ init_opts = hist.first.opts)
    => /\ pc = "done"
       /\ hist.parsed = 0
       /\ defs = hist.first.defs

CacheInvalid(c, opts, order) ==
    /\ c # NoFile
    /\ \/ c.opts # opts
       \/ c.version # cacheVersion
       \/ \E j \in 1..Len(order) : disk.src[order[j]].mtime > c.mtime

\* C5: when the cache file exists but is invalid (other options, other
\* version, or older than a source unit), load_cache returns False, no
\* exception reaches the caller of process_all, and process_all parses every
\* unit.
C5_InvalidCacheFallsBackToParse ==
    (/\ hist.lc.called
     /\ CacheInvalid(hist.lc.file, init_opts, file_order))
    => /\ hist.lc.ret = "False"
       /\ exc = "none"
       /\ pc = "done" => hist.parsed = Len(file_order)

\* C6: when a unit given to the parser cannot be found and no cache has been
\* loaded, process_all ends by raising 'Could not find header file'.
C6_MissingUnitIsFatal ==
    (/\ pc \in {"done", "raised"}
     /\ hist.lc.ret = "False"
     /\ \E j \in 1..Len(hist.given) : ~disk.src[hist.given[j]].exists)
    => /\ pc = "raised"
       /\ exc = "Could not find header file"

\* C7: right after an untagged "#pragma pack(pop)" that matches an earlier
\* push, the packing in effect is the packing that was in effect immediately
\* before that push.
C7_PopRestoresPackingBeforePush ==
    (pc = "pp" /\ hist.popx.is) => pp.packing = hist.popx.expect

\* C8: while and after a unit is preprocessed, the line numbers of its
\* pack_list never decrease from the initial entry on and strictly increase
\* among the entries appended for directives, and the j-th appended entry
\* carries the line index of the j-th "#pragma pack" directive obeyed.
C8_PackListIncreasingAndIndexed ==
    pc \in {"pp", "parse"}
    => LET pl == pack_list[current_file]
       IN /\ Len(pl) = Len(hist.packlog) + 1
          /\ \A j \in 2..Len(pl) : pl[1][1] <= pl[j][1]
          /\ \A j, q \in 2..Len(pl) : j < q => pl[j][1] < pl[q][1]
          /\ \A j \in 1..Len(hist.packlog) : pl[j + 1][1] = hist.packlog[j][1]

\* The packing set by the last "#pragma pack" directive obeyed before line i.
PackingBefore(log, i) ==
    LET js == {j \in 1..Len(log) : log[j][1] < i}
    IN IF js = {} THEN None
       ELSE log[CHOOSE j \in js : \A q \in js : q <= j][2]

\* C9: once a unit with a definition of struct S is parsed, S is registered
\* with its two members and with the packing set by the last "#pragma pack"
\* directive that precedes the (last) definition in the source text.
C9_StructPackOfLastPrecedingPragma ==
    (/\ pc = "loop"
     /\ hist.parsed = 1
     /\ hist.structlines # <<>>)
    => /\ "S" \in DOMAIN defs.structs
       /\ defs.structs["S"] =
              [pack |-> PackingBefore(hist.packlog, Last(hist.structlines)),
               members |-> << <<"a", <<Str("int")>>, None>>,
                              <<"b", <<Str("char")>>, None>> >>]

\* C10: once a unit holding the line "int *x[10];" is parsed, the variable x
\* is registered with the modifier list ["int", [10], "*"].
C10_ArrayBeforePointer ==
    (/\ pc = "loop"
     /\ hist.parsed = 1
     /\ \E j \in 1..Len(disk.src[PathA].lines) :
           disk.src[PathA].lines[j] = DeclPtrArray)
    => /\ "x" \in DOMAIN defs.variables
       /\ defs.variables["x"][2] = <<Str("int"), Lst(<<10>>), Str("*")>>

IsEnumDef(ln) == ln.k = "construct" /\ "enum" \in DOMAIN ln.type

\* Every alias among the members names an enumerator assigned before it:
\* one of env or an earlier member.
AliasesKnown(members, env) ==
    \A j \in 1..Len(members) :
        members[j].valueName # ""
        => members[j].valueName
              \in DOMAIN env \cup {members[q].name : q \in 1..(j - 1)}

\* The values of the members from j on: the explicit integer, the value of
\* the enumerator named, or the previous value plus one.  env holds the
\* enumerators assigned so far, acc the result.
RECURSIVE EnumValuesFrom(_, _, _, _, _)
EnumValuesFrom(members, j, prev, env, acc) ==
    IF j > Len(members) THEN acc
    ELSE LET v == members[j]
             val == IF v.value # "" THEN ToInt(v.value)
                    ELSE IF v.valueName # "" THEN env[v.valueName]
                    ELSE prev + 1
         IN EnumValuesFrom(members, j + 1, val, Put(env, v.name, val),
                           Put(acc, v.name, val))

\* The enumerators the first j lines assign.
RECURSIVE EnumeratorsUpTo(_, _)
EnumeratorsUpTo(lines, j) ==
    IF j = 0 THEN <<>>
    ELSE LET e == EnumeratorsUpTo(lines, j - 1) IN
         IF IsEnumDef(lines[j]) /\ AliasesKnown(lines[j].type.t.members, e)
         THEN EnumValuesFrom(lines[j].type.t.members, 1, -1, e, e)
         ELSE e

\* The name of the enum of line j: its tag, or anonEnum<n> for the n-th
\* (from 0) anonymous enum of the unit.
EnumNameAt(lines, j) ==
    IF lines[j].type.t.name # <<>> THEN lines[j].type.t.name[1]
    ELSE "anonEnum" \o
         NumStr(Cardinality({q \in 1..(j - 1) :
                                IsEnumDef(lines[q]) /\ lines[q].type.t.name = <<>>}))

\* C11: once a unit is parsed, every enum definition of it whose aliases
\* name enumerators assigned before them is registered under enums with the
\* values: explicit integer, value of the enumerator named, or previous
\* value plus one (0 for the first member); and every member is registered
\* under values with its value.
C11_EnumMemberValues ==
    (pc = "loop" /\ hist.parsed = 1)
    => LET lines == disk.src[PathA].lines IN
       \A j \in 1..Len(lines) :
          (/\ IsEnumDef(lines[j])
           /\ AliasesKnown(lines[j].type.t.members, EnumeratorsUpTo(lines, j - 1)))
          => LET e == EnumValuesFrom(lines[j].type.t.members, 1, -1,
                                     EnumeratorsUpTo(lines, j - 1), <<>>)
                 name == EnumNameAt(lines, j)
             IN /\ name \in DOMAIN defs.enums
                /\ defs.enums[name] = e
                /\ \A m \in DOMAIN e :
                      m \in DOMAIN defs.values /\ defs.values[m] = e[m]

\* The line just preprocessed is ln, the directive def stands before it in
\* the unit, and the name it defines is not an object macro.
CallAfterDefine(def, ln) ==
    /\ pc = "pp"
    /\ pp.i >= 1
    /\ disk.src[current_file].lines[pp.i] = ln
    /\ \E q \in 1..(pp.i - 1) : disk.src[current_file].lines[q] = def
    /\ def.rest[1] \notin DOMAIN defs.macros

\* C12 as stated: after "#define SQUARE(x) ((x)*(x))" the code line
\* "SQUARE(3+1)" is emitted as exactly "((3+1)*(3+1))".
C12_ExpandsToExactArgumentText ==
    CallAfterDefine(DefineSquare, SquareCall)
    => pp.result[pp.i] =
          Code(<<"(", "(", "3", "+", "1", ")", "*", "(", "3", "+", "1", ")", ")">>)

\* C12: after "#define SQUARE(x) ((x)*(x))" the function macro SQUARE is
\* the template "(({})*({}))" with the parameter indices 0, 0, and the code
\* line "SQUARE(3+1)" is emitted with each placeholder replaced by the
\* tokens of the argument joined by single spaces, "((3 + 1)*(3 + 1))";
\* after "#define ADD(a,b) b+a" the line "y = ADD(1, 2*3);" is emitted as
\* "y = 2 * 3+1;", the arguments placed by the parameter indices 1, 0.
C12_ExpandsToRecombinedArguments ==
    /\ CallAfterDefine(DefineSquare, SquareCall)
       => /\ defs.fnmacros["SQUARE"] =
                [tmpl |-> <<"(", "(", "{}", ")", "*", "(", "{}", ")", ")">>,
                 order |-> <<0, 0>>]
          /\ pp.result[pp.i] =
                Code(<<"(", "(", "3", " ", "+", " ", "1", ")", "*",
                       "(", "3", " ", "+", " ", "1", ")", ")">>)
    /\ CallAfterDefine(DefineAdd, AddCall)
       => /\ defs.fnmacros["ADD"] = [tmpl |-> <<"{}", "+", "{}">>,
                                      order |-> <<1, 0>>]
          /\ pp.result[pp.i] =
                Code(<<"y", "=", "2", " ", "*", " ", "3", "+", "1", ";">>)

\* "#define SQUARE(x) ((x)*(x))" then "SQUARE(3+1)", emitted with spaces
\* around the operator of the argument.
C12_Witness ==
    /\ CallAfterDefine(DefineSquare, SquareCall)
    /\ pp.i = 2
    /\ pp.result[2].toks[3] = "3"
    /\ pp.result[2].toks[4] = " "

\* Where the typedef chain of the type text name ends in the registry
\* types, followed for at most n substitutions: at a fundamental type, at a
\* name the registry lacks, or (n registered names passed) in a cycle.
RECURSIVE ChainEnd(_, _, _)
ChainEnd(types, name, n) ==
    IF is_fund_type(<<Str(name)>>) THEN "fundamental"
    ELSE IF name \notin DOMAIN types THEN "unknown"
    ELSE IF n = 0 THEN "cycle"
    ELSE ChainEnd(types, types[name][1].str, n - 1)

ArgChainEnd ==
    ChainEnd(defs.types, ecall.arg[1].str, Cardinality(DOMAIN defs.types))

\* C13: a call of eval_type on a type whose typedef chain reaches a name
\* that is neither fundamental nor in the types registry has raised
\* 'Unknown type' when it is over; it has not returned a value.
C13_UnknownTypeRaises ==
    (pc = "done" /\ ecall.st # "none" /\ ArgChainEnd = "unknown")
    => ecall.st = "raised" /\ ecall.exc = "Unknown type"

\* "typedef X *C;" and eval_type(['C']): C is replaced by X, X is unknown.
C13_Witness ==
    /\ pc = "done"
    /\ ecall.arg = <<Str("C")>>
    /\ ecall.used = <<"C", "X">>
    /\ ecall.st = "raised"
    /\ ecall.exc = "Unknown type"

NoDuplicates(seq) == \A j, q \in 1..Len(seq) : seq[j] = seq[q] => j = q

\* C14: every call of eval_type ends; it has then returned a type whose
\* head is fundamental (or a struct, union or enum tag), or raised 'Unknown
\* type', or raised the recursive-loop exception with the head of typ a
\* name already substituted; while it runs no name has been substituted
\* twice, so that the exception comes at the first name that reappears.
C14_EvalTypeTerminates ==
    /\ [](pc = "eval" => NoDuplicates(ecall.used))
    /\ (pc = "eval") ~>
          (/\ pc = "done"
           /\ \/ /\ ecall.st = "returned"
                 /\ is_fund_type(ecall.typ)
                 /\ ArgChainEnd = "fundamental"
              \/ /\ ecall.st = "raised"
                 /\ ecall.exc = "Unknown type"
                 /\ ArgChainEnd = "unknown"
              \/ /\ ecall.st = "raised"
                 /\ ecall.exc = "Recursive loop"
                 /\ ArgChainEnd = "cycle"
                 /\ NoDuplicates(ecall.used)
                 /\ \E j \in 1..Len(ecall.used) : ecall.used[j] = ecall.typ[1].str)

\* "typedef A B; typedef B A;" and eval_type(['B', '*']): B, A, then B again.
C14_Witness ==
    /\ pc = "done"
    /\ ecall.arg = <<Str("B"), Str("*")>>
    /\ ecall.used = <<"B", "A">>
    /\ ecall.st = "raised"
    /\ ecall.exc = "Recursive loop"

\* C15: parse_defs returns normally, and every variable declaration of the
\* unit that is well formed on its own ("int y = 3;") is registered when
\* it returns, whatever happens in the handlers of the other constructs.
C15_ConstructErrorsAreContained ==
    [][pc = "parse" =>
          /\ pc' = "loop"
          /\ \A j \in 1..Len(files[file_order[call.fidx]]) :
                files[file_order[call.fidx]][j] = DeclInit
                => "y" \in DOMAIN defs'.variables]_vars

\* The lines of the unit being preprocessed, and the ones preprocess has
\* read.
UnitLines == disk.src[current_file].lines
ReadLines == SubSeq(UnitLines, 1, pp.i)

\* C16: when the conditional stack holds only its initial frame and the
\* next line is "#endif", preprocess goes on to the following line with
\* the initial frame still on the stack.
C16_StrayEndifIsRecoverable ==
    [][(/\ pc = "pp"
        /\ pc' # "parse"
        /\ Len(pp.if_true) = 1
        /\ disk'.src[current_file].lines[pp.i + 1] = Dir("endif", <<>>))
       => /\ pc' = "pp"
          /\ pp'.i = pp.i + 1
          /\ pp'.if_true = <<TRUE>>]_vars

\* C17: when the line just read is "#undef SQUARE" (the units of this
\* family have no conditionals), SQUARE is neither an object macro nor a
\* function macro and "defined SQUARE" is "0"; when SQUARE was not defined
\* before the line, the line has changed nothing and raised nothing.
C17_UndefRemovesMacro ==
    [][(/\ pc = "pp"
        /\ pc' # "parse"
        /\ disk'.src[current_file].lines[pp.i + 1] = Dir("undef", <<"SQUARE">>))
       => /\ pc' = "pp"
          /\ "SQUARE" \notin DOMAIN defs'.macros
          /\ "SQUARE" \notin DOMAIN defs'.fnmacros
          /\ resolve_defined(defs', <<"defined", "SQUARE">>) = <<"0">>
          /\ ("SQUARE" \notin DOMAIN defs.macros \cup DOMAIN defs.fnmacros
              => defs' = defs /\ file_defs' = file_defs)]_vars

\* The conditionals open after the first j of the lines: the #if, #ifdef
\* and #ifndef lines less the #endif lines.
RECURSIVE OpenConditionals(_, _)
OpenConditionals(lines, j) ==
    IF j = 0 THEN 0
    ELSE OpenConditionals(lines, j - 1)
         + (IF lines[j].k # "dir" THEN 0
            ELSE IF lines[j].d \in {"if", "ifdef", "ifndef"} THEN 1
            ELSE IF lines[j].d = "endif" THEN -1 ELSE 0)

\* C18: while preprocess reads a unit, if no #endif read so far came with
\* no conditional open, then if_true has one frame more than there are
\* open conditionals and if_hit has one per open conditional.
C18_OneFramePerOpenConditional ==
    (/\ pc = "pp"
     /\ \A j \in 0..pp.i : OpenConditionals(UnitLines, j) >= 0)
    => /\ Len(pp.if_true) = 1 + OpenConditionals(UnitLines, pp.i)
       /\ Len(pp.if_hit) = OpenConditionals(UnitLines, pp.i)

\* "#if 0", then a conditional opened inside the false branch.
C18_Witness ==
    /\ pc = "pp"
    /\ pp.i >= 2
    /\ UnitLines[1] = Dir("if", <<"0">>)
    /\ UnitLines[2] = Dir("if", <<"1">>)
    /\ OpenConditionals(UnitLines, pp.i) = 2
    /\ pp.if_true = <<TRUE, FALSE, FALSE>>

\* What the conditional directives of a unit mean, read without the
\* program: frames holds, for every open chain, whether the chain stands
\* in an active place (enc) and the conditions of its branches so far, an
\* #else being a branch whose condition is true; m tells whether the macro
\* M is defined.  A branch is active if its chain stands in an active
\* place, its condition is true and no condition before it was.
BranchActive(f) ==
    /\ f.enc
    /\ Last(f.conds)
    /\ \A q \in 1..(Len(f.conds) - 1) : ~f.conds[q]

RECURSIVE Chains(_, _)
Chains(lines, j) ==
    IF j = 0 THEN [frames |-> <<>>, m |-> FALSE]
    ELSE LET c == Chains(lines, j - 1)
             ln == lines[j]
             active == c.frames = <<>> \/ BranchActive(Last(c.frames))
             cond == IF ln.d = "ifdef" THEN c.m ELSE ln.rest = <<"1">>
             n == Len(c.frames)
         IN IF ln.k # "dir" THEN c
            ELSE IF ln.d \in {"if", "ifdef"}
            THEN [c EXCEPT !.frames = Append(@, [enc |-> active,
                                                 conds |-> <<cond>>])]
            ELSE IF ln.d = "elif"
            THEN [c EXCEPT !.frames[n].conds = Append(@, cond)]
            ELSE IF ln.d = "else"
            THEN [c EXCEPT !.frames[n].conds = Append(@, TRUE)]
            ELSE IF ln.d = "endif"
            THEN [c EXCEPT !.frames = Front(@)]
            ELSE IF ln.d = "define" /\ active THEN [c EXCEPT !.m = TRUE]
            ELSE c

\* C19: while preprocess reads a unit, the frame of every open chain tells
\* whether the current branch of the chain is the active one: the first
\* branch whose condition is true (the #else branch if none was), and none
\* where an enclosing conditional is false.  Hence at most one branch of a
\* chain is active, and none after one that matched.
C19_FirstTrueBranchIsActive ==
    pc = "pp"
    => LET c == Chains(UnitLines, pp.i) IN
       /\ Len(pp.if_true) = 1 + Len(c.frames)
       /\ \A k \in 1..Len(c.frames) :
             pp.if_true[k + 1] = BranchActive(c.frames[k])

\* "#if 0", "#elif 1", "#else": the #elif branch has matched, the #else
\* branch is not active.
C19_Witness ==
    /\ pc = "pp"
    /\ ReadLines = <<Dir("if", <<"0">>), Dir("elif", <<"1">>), Dir("else", <<>>)>>
    /\ pp.if_true = <<TRUE, FALSE>>

\* C20: the line preprocess has just read was given to expand_macros only
\* if all the conditionals that govern it are true (for #elif, #else and
\* #endif: the conditionals around their chain).
C20_NoExpansionInFalseContext ==
    (pc \in {"pp", "raised"} /\ hist.expand.called) => hist.expand.governing

\* The branch a chain is in is taken by its own conditions: the condition of
\* the branch is true and no condition of the chain before it was.
OwnBranchTaken(f) ==
    /\ Last(f.conds)
    /\ \A q \in 1..(Len(f.conds) - 1) : ~f.conds[q]

\* After the first j of the lines, some open conditional, the innermost or
\* one around it, is in a branch that is not taken.
InFalseContext(lines, j) ==
    \E k \in 1..Len(Chains(lines, j).frames) :
        ~OwnBranchTaken(Chains(lines, j).frames[k])

\* C21: a #define, #undef or #pragma line read where some enclosing
\* conditional, at whatever depth, is in a branch that is not taken leaves
\* the registry and its per-unit partitions, the packing stack, the packing
\* value and the pack_list of every unit as they were.
C21_DeadDirectiveChangesNothing ==
    [][(/\ pc = "pp"
        /\ pc' # "parse"
        /\ disk'.src[current_file].lines[pp.i + 1].d \in {"define", "undef", "pragma"}
        /\ InFalseContext(UnitLines, pp.i))
       => /\ defs' = defs
          /\ file_defs' = file_defs
          /\ pp'.pack_stack = pp.pack_stack
          /\ pp'.packing = pp.packing
          /\ pack_list' = pack_list]_vars

\* "#define M 1", "#if 0", "#if 1", then "#undef M" inside the inner, true
\* conditional: M is still an object macro, in the registry and in the
\* partition of the unit.
C21_Witness ==
    /\ pc = "pp"
    /\ ReadLines = <<Dir("define", <<"M", "1">>), Dir("if", <<"0">>),
                     Dir("if", <<"1">>), Dir("undef", <<"M">>)>>
    /\ InFalseContext(UnitLines, 3)
    /\ "M" \in DOMAIN defs.macros
    /\ "M" \in DOMAIN file_defs["a.h"].macros

\* The unit a.h has been parsed, and its lines.
UnitParsed == pc = "loop" /\ hist.parsed = 1
SourceLines == disk.src[PathA].lines

\* C22: once a unit holding the line "int (*fp)(int);" is parsed, fp is
\* registered as a variable without a value whose modifier list is the
\* type, then the modifiers outside the parentheses (the argument tuple),
\* then the ones of the declarator inside them: ["int", ((None, ["int"],
\* None),), "*"].
C22_NestedDeclaratorIsRegistered ==
    (/\ UnitParsed
     /\ \E j \in 1..Len(SourceLines) : SourceLines[j] = DeclFp)
    => /\ "fp" \in DOMAIN defs.variables
       /\ defs.variables["fp"] =
              <<None, <<Str("int"),
                        Tup(<< <<NoneS, <<Str("int")>>, NoneS>> >>),
                        Str("*")>> >>

IsVariableDecl(ln) == ln.k = "construct" /\ ln.c = "variable"

\* The initializer of declarator q of the declaration ln: the grammar
\* (lines 836-849) puts the "=" after the declarator list, so that it stands
\* with the last declarator; the others have none.
InitializerOf(ln, q) ==
    IF q = Len(ln.decl_list) THEN eval_expr(defs.values, ln.value) ELSE None

\* C23: once a unit is parsed (the declarators of a unit have distinct
\* names), every declarator of every variable declaration of it whose
\* modifier list resolves is registered by the kind of the list's last
\* element: a function-argument tuple puts the name under functions and
\* not under variables or values; anything else puts it under variables,
\* as (the value of its initializer or None, the modifier list), and under
\* values, and not under functions.
C23_PrototypeOrVariable ==
    UnitParsed
    => \A j \in 1..Len(SourceLines) :
          IsVariableDecl(SourceLines[j])
          => \A q \in 1..Len(SourceLines[j].decl_list) :
                LET pt == process_type(defs.values, SourceLines[j].type.text,
                                       SourceLines[j].decl_list[q])
                IN pt.err = "none"
                   => IF IsTuple(Last(pt.toks))
                      THEN /\ pt.name \in DOMAIN defs.functions
                           /\ pt.name \notin DOMAIN defs.variables
                           /\ pt.name \notin DOMAIN defs.values
                      ELSE /\ pt.name \in DOMAIN defs.variables
                           /\ defs.variables[pt.name] =
                                  <<InitializerOf(SourceLines[j], q), pt.toks>>
                           /\ pt.name \in DOMAIN defs.values
                           /\ defs.values[pt.name] = InitializerOf(SourceLines[j], q)
                           /\ pt.name \notin DOMAIN defs.functions

\* The number of the last line that defines the tag of def with a member
\* list, 0 if no line does.
LastDefinition(lines, def) ==
    LET js == {j \in 1..Len(lines) : lines[j] = def}
    IN IF js = {} THEN 0 ELSE CHOOSE j \in js : \A q \in js : q <= j

\* The record a definition with the members of def registers on line j.
RecordAt(def, j) ==
    [pack |-> packing_at(pack_list[PathA], j),
     members |-> [q \in 1..Len(def.type.t.members) |->
                     <<def.type.t.members[q].decl_list[1].name,
                       <<Str(def.type.t.members[q].type)>>, None>>]]

\* C24: once a unit is parsed, a struct or union tag that the unit defines
\* with a member list is registered with the members and the packing of its
\* last definition, whatever occurrences of the tag without a member list
\* ("struct S;", "struct S v;") and whatever pack pragmas follow it.
C24_ForwardReferenceKeepsDefinition ==
    UnitParsed
    => /\ LastDefinition(SourceLines, StructS) > 0
          => /\ "S" \in DOMAIN defs.structs
             /\ defs.structs["S"] =
                    RecordAt(StructS, LastDefinition(SourceLines, StructS))
       /\ LastDefinition(SourceLines, UnionU) > 0
          => /\ "U" \in DOMAIN defs.unions
             /\ defs.unions["U"] =
                    RecordAt(UnionU, LastDefinition(SourceLines, UnionU))

\* The definition of struct S, "struct S;", "#pragma pack(2)", then
\* "struct S v;" where the packing is 2: S keeps its two members and the
\* packing None of its definition, and v is registered.
C24_Witness ==
    /\ UnitParsed
    /\ SourceLines = <<StructS, StructRef,
                       Dir("pragma", <<"pack", "(", "2", ")">>), StructVar>>
    /\ defs.structs["S"].pack = None
    /\ Len(defs.structs["S"].members) = 2
    /\ packing_at(pack_list[PathA], 4) = 2
    /\ "v" \in DOMAIN defs.variables

\* d has the entry name of category c, with the value v.
Holds(d, c, name, v) == name \in DOMAIN d[c] /\ d[c][name] = v

\* The entry name of category c is in d1 and is not the same in d0.
Written(d0, d1, c, name) ==
    name \in DOMAIN d1[c] /\ ~Holds(d0, c, name, d1[c][name])

\* The partition of the base name b in the per-unit view fd.
Partition(fd, b) == IF b \in DOMAIN fd THEN fd[b] ELSE EmptyDefs

\* C25: in every step of a parser (the construction with its keyword
\* arguments, a line of preprocess, the parse of a unit), with b the base
\* name of the current file (None during the construction): every entry the
\* step has put into the global registry or changed there is in the
\* partition of b with the same value; every entry it has put into the
\* partition of b or changed there is in the global registry with the same
\* value; and the partitions of the other units are as they were.
C25_AddDefWritesBothViews ==
    [][LET d0 == IF gen' = gen THEN defs ELSE EmptyDefs
           f0 == IF gen' = gen THEN file_defs ELSE <<>>
           b == basename(current_file')
       IN /\ \A c \in Categories : \A n \in DOMAIN defs'[c] :
                Written(d0, defs', c, n)
                => Holds(Partition(file_defs', b), c, n, defs'[c][n])
          /\ \A c \in Categories : \A n \in DOMAIN Partition(file_defs', b)[c] :
                Written(Partition(f0, b), Partition(file_defs', b), c, n)
                => Holds(defs', c, n, file_defs'[b][c][n])
          /\ \A u \in DOMAIN f0 \ {b} :
                u \in DOMAIN file_defs' /\ file_defs'[u] = f0[u]]_vars

\* A parser constructed with macros = {'K': '7'} has read "#define N M" in
\* a.h and "#define M 1", "#define N M" in b.h: K is in the partition None,
\* N is "M" in the partition of a.h and "1" in the one of b.h and in the
\* global registry.
C25_Witness ==
    /\ Holds(Partition(file_defs, NoneS), "macros", "K", <<"7">>)
    /\ Holds(defs, "macros", "K", <<"7">>)
    /\ Holds(Partition(file_defs, "a.h"), "macros", "N", <<"M">>)
    /\ Holds(Partition(file_defs, "b.h"), "macros", "N", <<"1">>)
    /\ Holds(defs, "macros", "N", <<"1">>)

\* The registry a new parser gets from the per-unit view fd by import_dict,
\* as load_cache (line 307) and copy_from (line 172) do.
Rebuilt(fd) ==
    import_dict([defs |-> EmptyDefs, file_defs |-> <<>>], NonePath,
                DOMAIN fd, fd).r.defs

\* C26: at every point of the processing of the units, an object macro of
\* any per-unit partition is an object macro of the global registry, and
\* the registry import_dict rebuilds from the partitions has no object
\* macro the global registry lacks.
C26_UndefinedMacroIsInNoPartition ==
    /\ \A u \in DOMAIN file_defs :
          DOMAIN file_defs[u].macros \subseteq DOMAIN defs.macros
    /\ DOMAIN Rebuilt(file_defs).macros \subseteq DOMAIN defs.macros

\* C27: when no push is outstanding and the line read, outside any false
\* conditional, is "#pragma pack(pop)", preprocess goes on to the next
\* line with the packing stack still holding its initial frame (None, None)
\* and the packing value as it was.
C27_PopWithoutPushKeepsInitialFrame ==
    [][(/\ pc = "pp"
        /\ pc' # "parse"
        /\ All(pp.if_true)
        /\ hist.saved = <<>>
        /\ disk'.src[current_file].lines[pp.i + 1] =
              Dir("pragma", <<"pack", "(", "pop", ")">>))
       => /\ pc' = "pp"
          /\ pp'.i = pp.i + 1
          /\ pp'.pack_stack = <<<<None, NoneS>>>>
          /\ pp'.packing = pp.packing]_vars
====
